---------------------------- MODULE Spec2Model ----------------------------
(***************************************************************************)
(* A model of the Modbus client library: the transporter (Send, the idle   *)
(* close timer, Connect/Close) of src/unnamed/part_001, the TCP client's   *)
(* transaction counter of src/client.go and the failure-tracking blacklist *)
(* of src/unnamed/part_002 (uint16 counters) and src/unnamed/part_003      *)
(* (uint counters).                                                        *)
(*                                                                         *)
(* Three specifications share the variables; each one moves its own group  *)
(* and leaves the other groups at their initial values:                    *)
(*   Spec / FairSpec  the transporter                        (tvars)       *)
(*   ClientSpec       MBClient / tcpClient transaction ids   (cvars)       *)
(*   BlacklistSpec    the blacklist                          (bvars)       *)
(***************************************************************************)
EXTENDS Integers, Sequences, FiniteSets, TLC

(***************************************************************************)
(* Bounds of the model.                                                    *)
(***************************************************************************)
\* goroutines that call Send on the one shared transporter
NumSenders == 2
\* Send calls made on the transporter in one behaviour
MaxSends == 2
\* largest IdleTimeout, in clock ticks (0 means the idle timer is disabled)
MaxIdleTimeout == 1
\* operating-system handles (serial ports, sockets) that can be open at once
MaxHandles == 2
\* MBClient objects
NumClients == 2
\* goroutines that call Encode
NumEncoders == 2
\* Encode calls made in one behaviour
MaxEncodes == 2
\* MBClient.Set calls made in one behaviour
MaxSets == 1
\* slave ids the blacklist is asked about
NumIds == 2
\* largest blacklist limit
MaxLimit == 3
\* counter increments (Get, Plus) made in one behaviour
MaxIncs == 4
\* longest data payload handed to Encode: one byte more than a PDU may carry
MaxData == 253

\* goroutines that call the blacklist, beside its ticker goroutine
NumCallers == 1
\* counter increments (Get, Plus) made in one behaviour of the goroutines
MaxLockedIncs == 2

Senders == 1..NumSenders

VARIABLES
    \* ---- transporter (src/unnamed/part_001) ----
    mode,           \* "rtu" | "ascii" | "tcp": the variant MBTransporter.Connect built
    IdleTimeout,    \* serialPort.IdleTimeout / tcpTransporter.IdleTimeout, in ticks
    mu,             \* sync.Mutex: Unlocked, or the goroutine that holds it
    port,           \* serialPort.port / tcpTransporter.conn: NilHandle or a handle
    handles,        \* handles that are open at the operating system
    sinceActivity,  \* time.Now().Sub(lastActivity), saturated at IdleTimeout
    closeTimer,     \* "nil" | "armed" | "expired"
    timerLeft,      \* ticks until an armed closeTimer fires
    cidle,          \* the closeIdle goroutine: "none" | "lock" | "close" | "keep"
    pc,             \* per sender: its position inside Send
    calls,          \* Send calls started so far; the k-th call carries request k
    req,            \* per sender: the number of the request of its current Send
    dialed,         \* per sender: connect() opened the handle in its current Send
    data,           \* per sender: the local buffer `data`, as the parts read so far
    aduResponse,    \* per sender: Send's first result
    warn,           \* per sender: Send's second result ("" is nil)
    err,            \* per sender: Send's third result ("" is nil)
    devq,           \* requests the device has received and not yet answered
    devRest,        \* request whose reply the device has half sent (0: none)
    rx              \* bytes waiting in the handle's receive buffer, as frame parts

tvars == <<mode, IdleTimeout, mu, port, handles, sinceActivity, closeTimer,
           timerLeft, cidle, pc, calls, req, dialed, data, aduResponse, warn,
           err, devq, devRest, rx>>

\* ---- MBClient / tcpClient (src/client.go) ----
VARIABLES
    transactionId,  \* per MBClient: tcpClient.transactionId of the tcpClient it holds
    cid,            \* per MBClient: tcpClient.id
    inst,           \* per MBClient: how many times Set replaced its tcpClient
    prior,          \* per MBClient: Encode calls its tcpClient served before the first step
    made,           \* per MBClient: Encode calls its current tcpClient has served since
    epc,            \* per encoder goroutine: "idle" | "put" (inside Encode)
    ecl,            \* per encoder goroutine: the client it is encoding on
    etx,            \* per encoder goroutine: Encode's local transactionId
    issued          \* the ADUs returned by Encode, with the call that made each

cvars == <<transactionId, cid, inst, prior, made, epc, ecl, etx, issued>>

\* ---- blacklist (src/unnamed/part_002, src/unnamed/part_003) ----
VARIABLES
    version,        \* "uint16" (part_002) | "uint" (part_003): the counter type
    limit,          \* blacklist.limit
    list,           \* blacklist.list: id -> fault count (a missing key reads 0)
    run,            \* per id: consecutive Get(id) calls since its counter was 0
    got,            \* the last Get: its id, its two results, its place k in the run,
                    \* whether nblock was set, and whether it called nblock
    incs,           \* counter increments (Get, Plus) made since the first step
    timeoutClean,   \* the timeoutClean argument NewBlacklist was called with
    bltimeout,      \* blacklist.timeout, in minutes
    ticker,         \* the period blacklist.ticker was armed with, or NoTicker
    nclean,         \* blacklist.nclean is set (not nil)
    nblock,         \* blacklist.nblock is set (not nil)
    tpc,            \* the ticker goroutine: "wait" | "notice" | "clean"
    tick,           \* the current or last tick: nclean calls made in it, whether
                    \* one came after the zeroing, whether nclean stayed set,
                    \* whether it zeroed a counter that was not 0, and done
    fires,          \* per id: nblock(id) calls since its counter was last zeroed
                    \* or the limit last set (2 stands for two or more)
    since           \* per id: a Get(id) has returned blocked since the last Clean,
                    \* Nullify(id) or SetLimitFailedSendes; nblock(id) has been
                    \* called since the counter of id was last 0

bvars == <<version, limit, list, run, got, incs, timeoutClean, bltimeout, ticker,
           nclean, nblock, tpc, tick, fires, since>>

\* ---- framing codec (src/client.go: rtuClient, tcpClient, asciiClient) ----
VARIABLES
    api,            \* "rtu" | "tcp" | "ascii": the ApiClient NewSClient built
    slaveId,        \* the id field of that ApiClient (SetID)
    txnBefore,      \* tcpClient.transactionId before the Encode (a uint32)
    reqPdu,         \* the ProtocolDataUnit handed to Encode
    encoded,        \* what Encode returned: [adu, err]
    flip,           \* the bit flipped on the way to Decode: [at, bit], or NoFlip
    frame,          \* the ADU handed to Decode
    decoded,        \* what Decode returned: [pdu, err]
    response,       \* the aduResponse handed to Verify
    altered,        \* the header fields in which it differs from the request
    verified,       \* what Verify returned: an error, or NoError
    kpc             \* "built" | "encoded" | "framed" | "decoded" | "answered" | "verified"

kvars == <<api, slaveId, txnBefore, reqPdu, encoded, flip, frame, decoded,
           response, altered, verified, kpc>>

\* ---- request builders (src/client.go, src/rtu_client.go) and the RTU
\* response-length predictor (src/unnamed/part_001) ----
VARIABLES
    bcall,          \* the builder called and its arguments
    built,          \* what the builder returned: [adu, err]
    bytesToRead,    \* calculateResponseLength(aduRequest), NoLength before it
    reply,          \* what the device put on the line: [kind, bytes]
    first,          \* the number of bytes the first read of Send returned
    sent,           \* what Send returned, what it read and what it left
    rpc             \* "new" | "called" | "predicted" | "read"

rvars == <<bcall, built, bytesToRead, reply, first, sent, rpc>>

\* ---- blacklist.mutex and the goroutines that call the blacklist
\* (src/unnamed/part_002, src/unnamed/part_003) ----
VARIABLES
    mutex,          \* blacklist.mutex: Unlocked, or the goroutine whose Lock returned last
    stack,          \* per goroutine: its blacklist calls that have not returned, the
                    \* innermost last; each is [op, arg, pc] with pc "lock" (in
                    \* bl.mutex.Lock()) | "held" | "body" (past the callback test)
    does            \* what the functions set as nblock and nclean do when called:
                    \* "return", or call bl.Nullify or bl.Get and then return

lvars == <<mutex, stack, does>>

vars == <<tvars, cvars, bvars, kvars, rvars, lvars>>

(***************************************************************************)
(* The transporter: src/unnamed/part_001.                                  *)
(***************************************************************************)
\* the zero value of sync.Mutex
Unlocked == 0
\* the goroutine time.AfterFunc starts to run closeIdle
TimerGoroutine == NumSenders + 1
\* a nil port / conn
NilHandle == 0
\* a nil error
NoError == ""

Min(a, b) == IF a < b THEN a ELSE b
Max(a, b) == IF a > b THEN a ELSE b

\* A nil-pointer panic ends the whole process: nothing runs after it.
Running == \A t \in Senders : pc[t] # "panic"

\* Which Send methods take the transporter's mutex: tcpTransporter.Send and
\* asciiTransporter.Send begin with mu.Lock(); defer mu.Unlock();
\* rtuTransporter.Send does not touch the mutex.
SendLocks(m) == m \in {"tcp", "ascii"}

\* serial.Open / net.Dialer.Dial hand out a handle that is not open yet.
FreeHandles == (1..MaxHandles) \ handles
NewHandle == CHOOSE h \in FreeHandles : \A g \in FreeHandles : h <= g

\* A reply travels as frame parts. "whole": a serial frame the first read
\* returns complete; "head" then "rest": a frame whose first read returns only
\* its beginning (the 7 header bytes on TCP, at least rtuMinSize bytes on RTU,
\* a chunk without the final CR LF on ASCII); "badlen": a TCP header whose
\* length field is 0 or more than tcpMaxLength - (tcpHeaderSize - 1).
Part(k, kind) == [req |-> k, kind |-> kind]
Shapes(m) == IF m = "tcp" THEN {"head", "badlen"} ELSE {"whole", "head"}

\* close(): serialPort.close / tcpTransporter.close. The handle's receive
\* buffer goes with it; a TCP server also drops what it owed the connection.
closeHandles == IF port # NilHandle THEN handles \ {port} ELSE handles
closeDevq == IF port # NilHandle /\ mode = "tcp" THEN <<>> ELSE devq
closeDevRest == IF port # NilHandle /\ mode = "tcp" THEN 0 ELSE devRest
closeRx == IF port # NilHandle THEN <<>> ELSE rx

\* a closeIdle that tests idle > IdleTimeout
IdleExpiredStrict(idle, timeout) == idle > timeout

\* closeIdle's test: idle := time.Now().Sub(lastActivity); idle >= IdleTimeout
IdleExpired(idle, timeout) == idle >= timeout

TInit ==
    /\ mode \in {"rtu", "ascii", "tcp"}
    /\ IdleTimeout \in 0..MaxIdleTimeout
    /\ mu = Unlocked
    \* MBTransporter.Connect has built the variant and opened its handle
    /\ port = 1
    /\ handles = {1}
    /\ sinceActivity = 0
    /\ closeTimer = "nil"
    /\ timerLeft = 0
    /\ cidle = "none"
    /\ pc = [t \in Senders |-> "idle"]
    /\ calls = 0
    /\ req = [t \in Senders |-> 0]
    /\ dialed = [t \in Senders |-> FALSE]
    /\ data = [t \in Senders |-> <<>>]
    /\ aduResponse = [t \in Senders |-> <<>>]
    /\ warn = [t \in Senders |-> NoError]
    /\ err = [t \in Senders |-> NoError]
    /\ devq = <<>>
    /\ devRest = 0
    /\ rx = <<>>

\* The clock advances one tick. Elapsed times saturate at IdleTimeout, where
\* closeIdle's comparison no longer tells them apart.
Tick ==
    /\ Running
    /\ sinceActivity < IdleTimeout \/ (closeTimer = "armed" /\ timerLeft > 0)
    /\ sinceActivity' = Min(sinceActivity + 1, IdleTimeout)
    /\ timerLeft' = IF closeTimer = "armed" THEN Max(timerLeft - 1, 0) ELSE timerLeft
    /\ UNCHANGED <<mode, IdleTimeout, dialed, mu, port, handles, closeTimer, cidle, pc,
                   calls, req, data, aduResponse, warn, err, devq, devRest, rx>>
    /\ UNCHANGED <<cvars, bvars, kvars, rvars, lvars>>

\* The armed closeTimer expires: the runtime starts closeIdle in a goroutine
\* of its own. (A timer may fire late, so a second expiry while closeIdle
\* still runs is the same as one that fires after it.)
TimerFire ==
    /\ Running
    /\ closeTimer = "armed" /\ timerLeft = 0
    /\ cidle = "none"
    /\ closeTimer' = "expired"
    /\ cidle' = "lock"
    /\ UNCHANGED <<mode, IdleTimeout, dialed, mu, port, handles, sinceActivity, timerLeft,
                   pc, calls, req, data, aduResponse, warn, err, devq, devRest, rx>>
    /\ UNCHANGED <<cvars, bvars, kvars, rvars, lvars>>

\* closeIdle, first half: mu.Lock(); the IdleTimeout <= 0 return; the idle test.
CloseIdleCheck ==
    /\ Running
    /\ cidle = "lock"
    /\ mu = Unlocked
    /\ mu' = TimerGoroutine
    /\ cidle' = IF IdleTimeout > 0 /\ IdleExpired(sinceActivity, IdleTimeout)
                THEN "close" ELSE "keep"
    /\ UNCHANGED <<mode, IdleTimeout, dialed, port, handles, sinceActivity, closeTimer,
                   timerLeft, pc, calls, req, data, aduResponse, warn, err, devq,
                   devRest, rx>>
    /\ UNCHANGED <<cvars, bvars, kvars, rvars, lvars>>

\* closeIdle, idle branch: close(), then the deferred mu.Unlock().
CloseIdleClose ==
    /\ Running
    /\ cidle = "close"
    /\ port' = NilHandle
    /\ handles' = closeHandles
    /\ devq' = closeDevq
    /\ devRest' = closeDevRest
    /\ rx' = closeRx
    /\ mu' = Unlocked
    /\ cidle' = "none"
    /\ UNCHANGED <<mode, IdleTimeout, dialed, sinceActivity, closeTimer, timerLeft, pc,
                   calls, req, data, aduResponse, warn, err>>
    /\ UNCHANGED <<cvars, bvars, kvars, rvars, lvars>>

\* closeIdle, not idle: only the deferred mu.Unlock().
CloseIdleKeep ==
    /\ Running
    /\ cidle = "keep"
    /\ mu' = Unlocked
    /\ cidle' = "none"
    /\ UNCHANGED <<mode, IdleTimeout, dialed, port, handles, sinceActivity, closeTimer,
                   timerLeft, pc, calls, req, data, aduResponse, warn, err, devq,
                   devRest, rx>>
    /\ UNCHANGED <<cvars, bvars, kvars, rvars, lvars>>

\* serialPort.Connect / tcpTransporter.Connect: Lock, connect(), Unlock.
\* A failed Open or Dial leaves everything as it was.
Connect ==
    /\ Running
    /\ mu = Unlocked
    /\ IF port = NilHandle /\ FreeHandles # {}
       THEN /\ port' = NewHandle
            /\ handles' = handles \cup {NewHandle}
       ELSE UNCHANGED <<port, handles>>
    /\ UNCHANGED <<mode, IdleTimeout, dialed, mu, sinceActivity, closeTimer, timerLeft,
                   cidle, pc, calls, req, data, aduResponse, warn, err, devq,
                   devRest, rx>>
    /\ UNCHANGED <<cvars, bvars, kvars, rvars, lvars>>

\* serialPort.Close / tcpTransporter.Close: Lock, close(), Unlock.
Close ==
    /\ Running
    /\ mu = Unlocked
    /\ port' = NilHandle
    /\ handles' = closeHandles
    /\ devq' = closeDevq
    /\ devRest' = closeDevRest
    /\ rx' = closeRx
    /\ UNCHANGED <<mode, IdleTimeout, dialed, mu, sinceActivity, closeTimer, timerLeft,
                   cidle, pc, calls, req, data, aduResponse, warn, err>>
    /\ UNCHANGED <<cvars, bvars, kvars, rvars, lvars>>

\* MBTransporter.Connect, called again while no Send runs and nothing of the
\* variant it replaces is pending: it builds a new variant (nil port, nil
\* closeTimer, an unlocked mutex), connects it and stores it in mbt.t; the
\* variant it replaces is dropped as it is, its handle still open. A failed
\* Open or Dial returns before mbt.t is assigned.
MBConnect ==
    /\ Running
    /\ \A t \in Senders : pc[t] = "idle"
    /\ mu = Unlocked
    /\ cidle = "none"
    /\ closeTimer # "armed"
    /\ IF FreeHandles # {}
       THEN /\ port' = NewHandle
            /\ handles' = handles \cup {NewHandle}
            /\ closeTimer' = "nil"
            /\ sinceActivity' = 0
            /\ devq' = closeDevq
            /\ devRest' = closeDevRest
            /\ rx' = closeRx
       ELSE UNCHANGED <<port, handles, closeTimer, sinceActivity, devq, devRest, rx>>
    /\ UNCHANGED <<mode, IdleTimeout, dialed, mu, timerLeft, cidle, pc, calls, req,
                   data, aduResponse, warn, err>>
    /\ UNCHANGED <<cvars, bvars, kvars, rvars, lvars>>

\* Send is called: tcpTransporter.Send and asciiTransporter.Send take the
\* mutex (rtuTransporter.Send does not).
SendLock(t) ==
    /\ Running
    /\ pc[t] = "idle"
    /\ calls < MaxSends
    /\ IF SendLocks(mode)
       THEN mu = Unlocked /\ mu' = t
       ELSE UNCHANGED mu
    /\ calls' = calls + 1
    /\ req' = [req EXCEPT ![t] = calls + 1]
    /\ pc' = [pc EXCEPT ![t] = "connect"]
    /\ UNCHANGED <<mode, IdleTimeout, dialed, port, handles, sinceActivity, closeTimer,
                   timerLeft, cidle, data, aduResponse, warn, err, devq, devRest, rx>>
    /\ UNCHANGED <<cvars, bvars, kvars, rvars, lvars>>

\* connect(), its test: if mb.port == nil
SendConnect(t) ==
    /\ Running
    /\ pc[t] = "connect"
    /\ pc' = [pc EXCEPT ![t] = IF port = NilHandle THEN "open" ELSE "stamp"]
    /\ UNCHANGED <<mode, IdleTimeout, dialed, mu, port, handles, sinceActivity,
                   closeTimer, timerLeft, cidle, calls, req, data, aduResponse,
                   warn, err, devq, devRest, rx>>
    /\ UNCHANGED <<cvars, bvars, kvars, rvars, lvars>>

\* connect(), the nil branch: serial.Open / Dial, then mb.port = port; Send
\* returns the error of a failed open.
SendOpen(t) ==
    /\ Running
    /\ pc[t] = "open"
    /\ \/ /\ FreeHandles # {}
          /\ port' = NewHandle
          /\ handles' = handles \cup {NewHandle}
          /\ dialed' = [dialed EXCEPT ![t] = TRUE]
          /\ pc' = [pc EXCEPT ![t] = "stamp"]
          /\ UNCHANGED err
       \/ /\ err' = [err EXCEPT ![t] = "open"]
          /\ pc' = [pc EXCEPT ![t] = "ret"]
          /\ UNCHANGED <<port, handles, dialed>>
    /\ UNCHANGED <<mode, IdleTimeout, mu, sinceActivity, closeTimer, timerLeft,
                   cidle, calls, req, data, aduResponse, warn, devq, devRest, rx>>
    /\ UNCHANGED <<cvars, bvars, kvars, rvars, lvars>>

\* lastActivity = time.Now(); startCloseTimer(). (tcpTransporter.Send also
\* sets the connection's deadline here, which cannot fail on the connection
\* it holds under the mutex.)
SendStamp(t) ==
    /\ Running
    /\ pc[t] = "stamp"
    /\ sinceActivity' = 0
    /\ IF IdleTimeout <= 0
       THEN UNCHANGED <<closeTimer, timerLeft>>
       ELSE closeTimer' = "armed" /\ timerLeft' = IdleTimeout
    /\ pc' = [pc EXCEPT ![t] = "write"]
    /\ UNCHANGED <<mode, IdleTimeout, dialed, mu, port, handles, cidle, calls, req, data,
                   aduResponse, warn, err, devq, devRest, rx>>
    /\ UNCHANGED <<cvars, bvars, kvars, rvars, lvars>>

\* if _, err = port.Write(aduRequest); err != nil { return }
\* On a nil port (only rtuTransporter.Send can meet one) the call panics.
SendWrite(t) ==
    /\ Running
    /\ pc[t] = "write"
    /\ \/ /\ port = NilHandle
          /\ pc' = [pc EXCEPT ![t] = "panic"]
          /\ UNCHANGED <<err, devq>>
       \/ /\ port # NilHandle
          /\ devq' = Append(devq, req[t])
          /\ pc' = [pc EXCEPT ![t] = "read"]
          /\ UNCHANGED err
       \/ /\ port # NilHandle
          /\ err' = [err EXCEPT ![t] = "write"]
          /\ pc' = [pc EXCEPT ![t] = "ret"]
          /\ UNCHANGED devq
    /\ UNCHANGED <<mode, IdleTimeout, dialed, mu, port, handles, sinceActivity, closeTimer,
                   timerLeft, cidle, calls, req, data, aduResponse, warn, devRest, rx>>
    /\ UNCHANGED <<cvars, bvars, kvars, rvars, lvars>>

\* rtuTransporter.Send after the sleep:
\*   n, warn = io.ReadAtLeast(rtu.port, data[:], rtuMinSize)
\* then, by data[1], either read on (the frame is longer than what came) or
\* return what was read. A port closed under the blocked read fails the read;
\* a port found nil at the call panics.
RtuReadAtLeast(t) ==
    /\ Running
    /\ mode = "rtu"
    /\ pc[t] = "read"
    /\ \/ /\ port = NilHandle
          /\ pc' = [pc EXCEPT ![t] = "panic"]
          /\ UNCHANGED <<data, aduResponse, warn, rx>>
       \/ /\ warn' = [warn EXCEPT ![t] = "read"]
          /\ pc' = [pc EXCEPT ![t] = "ret"]
          /\ UNCHANGED <<data, aduResponse, rx>>
       \/ /\ port # NilHandle
          /\ rx # <<>>
          /\ rx' = Tail(rx)
          /\ data' = [data EXCEPT ![t] = <<Head(rx)>>]
          /\ IF Head(rx).kind = "head"
             THEN /\ pc' = [pc EXCEPT ![t] = "more"]
                  /\ UNCHANGED aduResponse
             ELSE /\ pc' = [pc EXCEPT ![t] = "ret"]
                  /\ aduResponse' = [aduResponse EXCEPT ![t] = <<Head(rx)>>]
          /\ UNCHANGED warn
    /\ UNCHANGED <<mode, IdleTimeout, dialed, mu, port, handles, sinceActivity, closeTimer,
                   timerLeft, cidle, calls, req, err, devq, devRest>>
    /\ UNCHANGED <<cvars, bvars, kvars, rvars, lvars>>

\* a Send that hands back what it had read when the second read fails
ReturnedWithWarn(d) == d

\* if warn != nil { return }: aduResponse is still nil
ReturnedOnWarn(d) == <<>>

\* n1, warn = io.ReadFull(rtu.port, data[n:bytesToRead]) (or up to
\* rtuExceptionSize); if warn != nil { return }; aduResponse = data[:n]
RtuReadFull(t) ==
    /\ Running
    /\ mode = "rtu"
    /\ pc[t] = "more"
    /\ \/ /\ port = NilHandle
          /\ pc' = [pc EXCEPT ![t] = "panic"]
          /\ UNCHANGED <<data, aduResponse, warn, rx>>
       \/ /\ warn' = [warn EXCEPT ![t] = "read"]
          /\ aduResponse' = [aduResponse EXCEPT ![t] = ReturnedOnWarn(data[t])]
          /\ pc' = [pc EXCEPT ![t] = "ret"]
          /\ UNCHANGED <<data, rx>>
       \/ /\ port # NilHandle
          /\ rx # <<>>
          /\ rx' = Tail(rx)
          /\ data' = [data EXCEPT ![t] = Append(data[t], Head(rx))]
          /\ aduResponse' = [aduResponse EXCEPT ![t] = Append(data[t], Head(rx))]
          /\ pc' = [pc EXCEPT ![t] = "ret"]
          /\ UNCHANGED warn
    /\ UNCHANGED <<mode, IdleTimeout, dialed, mu, port, handles, sinceActivity, closeTimer,
                   timerLeft, cidle, calls, req, err, devq, devRest>>
    /\ UNCHANGED <<cvars, bvars, kvars, rvars, lvars>>

\* tcpTransporter.Send: io.ReadFull(tcp.conn, data[:tcpHeaderSize]), then the
\* two tests of the length field, each of which flushes and fails. Seven
\* bytes that are not the beginning of a frame carry any length field.
TcpReadHeader(t) ==
    /\ Running
    /\ mode = "tcp"
    /\ pc[t] = "read"
    /\ \/ /\ err' = [err EXCEPT ![t] = "read"]
          /\ pc' = [pc EXCEPT ![t] = "ret"]
          /\ UNCHANGED <<data, rx>>
       \/ /\ rx # <<>>
          /\ Head(rx).kind \in {"badlen", "rest"}
          \* flush: one Read with an immediate deadline discards what waits
          /\ rx' = <<>>
          /\ data' = [data EXCEPT ![t] = <<Head(rx)>>]
          /\ err' = [err EXCEPT ![t] = "length"]
          /\ pc' = [pc EXCEPT ![t] = "ret"]
       \/ /\ rx # <<>>
          /\ Head(rx).kind \in {"head", "rest"}
          /\ rx' = Tail(rx)
          /\ data' = [data EXCEPT ![t] = <<Head(rx)>>]
          /\ pc' = [pc EXCEPT ![t] = "more"]
          /\ UNCHANGED err
    /\ UNCHANGED <<mode, IdleTimeout, dialed, mu, port, handles, sinceActivity, closeTimer,
                   timerLeft, cidle, calls, req, aduResponse, warn, devq, devRest>>
    /\ UNCHANGED <<cvars, bvars, kvars, rvars, lvars>>

\* io.ReadFull(tcp.conn, data[tcpHeaderSize:length]); aduResponse = data[:length]
TcpReadBody(t) ==
    /\ Running
    /\ mode = "tcp"
    /\ pc[t] = "more"
    /\ \/ /\ err' = [err EXCEPT ![t] = "read"]
          /\ pc' = [pc EXCEPT ![t] = "ret"]
          /\ UNCHANGED <<data, aduResponse, rx>>
       \/ /\ rx # <<>>
          /\ rx' = Tail(rx)
          /\ data' = [data EXCEPT ![t] = Append(data[t], Head(rx))]
          /\ aduResponse' = [aduResponse EXCEPT ![t] = Append(data[t], Head(rx))]
          /\ pc' = [pc EXCEPT ![t] = "ret"]
          /\ UNCHANGED err
    /\ UNCHANGED <<mode, IdleTimeout, dialed, mu, port, handles, sinceActivity, closeTimer,
                   timerLeft, cidle, calls, req, warn, devq, devRest>>
    /\ UNCHANGED <<cvars, bvars, kvars, rvars, lvars>>

\* asciiTransporter.Send, one turn of its read loop:
\*   if n, err = ascii.port.Read(data[length:]); err != nil { return }
\*   n == 0 breaks; so does a buffer that now ends with asciiEnd.
AsciiRead(t) ==
    /\ Running
    /\ mode = "ascii"
    /\ pc[t] = "read"
    /\ \/ /\ err' = [err EXCEPT ![t] = "read"]
          /\ pc' = [pc EXCEPT ![t] = "ret"]
          /\ UNCHANGED <<data, aduResponse, rx>>
       \/ /\ aduResponse' = [aduResponse EXCEPT ![t] = data[t]]
          /\ pc' = [pc EXCEPT ![t] = "ret"]
          /\ UNCHANGED <<data, err, rx>>
       \/ /\ rx # <<>>
          /\ rx' = Tail(rx)
          /\ data' = [data EXCEPT ![t] = Append(data[t], Head(rx))]
          /\ IF Head(rx).kind = "head"
             THEN UNCHANGED <<pc, aduResponse>>
             ELSE /\ pc' = [pc EXCEPT ![t] = "ret"]
                  /\ aduResponse' = [aduResponse EXCEPT ![t] = Append(data[t], Head(rx))]
          /\ UNCHANGED err
    /\ UNCHANGED <<mode, IdleTimeout, dialed, mu, port, handles, sinceActivity, closeTimer,
                   timerLeft, cidle, calls, req, warn, devq, devRest>>
    /\ UNCHANGED <<cvars, bvars, kvars, rvars, lvars>>

\* Send returns; the deferred mu.Unlock() of the Send methods that locked.
\* The caller takes the three results, which are those of the state before.
SendReturn(t) ==
    /\ Running
    /\ pc[t] = "ret"
    /\ IF SendLocks(mode) THEN mu' = Unlocked ELSE UNCHANGED mu
    /\ pc' = [pc EXCEPT ![t] = "idle"]
    /\ req' = [req EXCEPT ![t] = 0]
    /\ dialed' = [dialed EXCEPT ![t] = FALSE]
    /\ data' = [data EXCEPT ![t] = <<>>]
    /\ aduResponse' = [aduResponse EXCEPT ![t] = <<>>]
    /\ warn' = [warn EXCEPT ![t] = NoError]
    /\ err' = [err EXCEPT ![t] = NoError]
    /\ UNCHANGED <<mode, IdleTimeout, port, handles, sinceActivity, closeTimer,
                   timerLeft, cidle, calls, devq, devRest, rx>>
    /\ UNCHANGED <<cvars, bvars, kvars, rvars, lvars>>

\* The device answers the oldest request it holds, in one of the shapes.
DeviceReply ==
    /\ Running
    /\ devq # <<>>
    /\ devRest = 0
    /\ port # NilHandle
    /\ \E shape \in Shapes(mode) :
          /\ rx' = Append(rx, Part(Head(devq), shape))
          /\ devRest' = IF shape = "head" THEN Head(devq) ELSE 0
    /\ devq' = Tail(devq)
    /\ UNCHANGED <<mode, IdleTimeout, dialed, mu, port, handles, sinceActivity, closeTimer,
                   timerLeft, cidle, pc, calls, req, data, aduResponse, warn, err>>
    /\ UNCHANGED <<cvars, bvars, kvars, rvars, lvars>>

\* The device sends the remainder of the frame it began.
DeviceReplyRest ==
    /\ Running
    /\ devRest # 0
    /\ port # NilHandle
    /\ rx' = Append(rx, Part(devRest, "rest"))
    /\ devRest' = 0
    /\ UNCHANGED <<mode, IdleTimeout, dialed, mu, port, handles, sinceActivity, closeTimer,
                   timerLeft, cidle, pc, calls, req, data, aduResponse, warn, err,
                   devq>>
    /\ UNCHANGED <<cvars, bvars, kvars, rvars, lvars>>

\* The device never answers a request, or stops in the middle of a frame.
DeviceDrop ==
    /\ Running
    /\ \/ /\ devRest = 0 /\ devq # <<>>
          /\ devq' = Tail(devq)
          /\ UNCHANGED devRest
       \/ /\ devRest # 0
          /\ devRest' = 0
          /\ UNCHANGED devq
    /\ UNCHANGED <<mode, IdleTimeout, dialed, mu, port, handles, sinceActivity, closeTimer,
                   timerLeft, cidle, pc, calls, req, data, aduResponse, warn, err, rx>>
    /\ UNCHANGED <<cvars, bvars, kvars, rvars, lvars>>

SendStep(t) ==
    \/ SendConnect(t) \/ SendOpen(t) \/ SendStamp(t) \/ SendWrite(t)
    \/ RtuReadAtLeast(t) \/ RtuReadFull(t)
    \/ TcpReadHeader(t) \/ TcpReadBody(t)
    \/ AsciiRead(t)
    \/ SendReturn(t)

CloseIdle == CloseIdleCheck \/ CloseIdleClose \/ CloseIdleKeep

Device == DeviceReply \/ DeviceReplyRest \/ DeviceDrop

(***************************************************************************)
(* MBClient and tcpClient: src/client.go.                                  *)
(***************************************************************************)
Clients == 1..NumClients
Encoders == 1..NumEncoders
SlaveIds == {1, 17}

\* A uint32 is written as its two 16-bit halves <<high, low>>, its value
\* being high * 65536 + low.
Zero32 == <<0, 0>>
Less32(a, b) == a[1] < b[1] \/ (a[1] = b[1] /\ a[2] < b[2])

\* Encode calls a tcpClient may have served before the first step shown here:
\* none, or 4294967294 (two short of the wrap of the 32-bit counter, and so
\* of the wrap of the 16-bit header field too).
PriorEncodes == {Zero32, <<65535, 65534>>}

\* atomic.LoadUint32 in place of AddUint32: the counter is read, never advanced
LoadUint32(v, delta) == v

\* atomic.AddUint32(&v, delta): the new value, in 32 bits
AddUint32(v, delta) ==
    <<(v[1] + (v[2] + delta) \div 65536) % 65536, (v[2] + delta) % 65536>>

\* uint16(x >> 16) in place of uint16(x): the high half of the counter
Uint16Shifted(x) == x[1]

\* the conversion uint16(x) of a uint32 x
Uint16(x) == x[2]

\* binary.BigEndian.PutUint16 and binary.BigEndian.Uint16
PutUint16(v) == <<v \div 256, v % 256>>
BigEndianUint16(b, off) == b[off + 1] * 256 + b[off + 2]

\* the PDU of ReadHoldingRegisters(0x006B, 0x0003): dataBlock(address, quantity)
ReadHoldingPdu == [FunctionCode |-> 3, Data |-> PutUint16(107) \o PutUint16(3)]

\* tcpClient.Encode once it holds its transactionId: the MBAP header
\* (transaction id, protocol id 0, length, unit id), then function and data.
TcpEncode(txn, id, pdu) ==
    PutUint16(Uint16(txn)) \o PutUint16(0)
        \o PutUint16((1 + 1 + Len(pdu.Data)) % 65536) \o <<id>>
        \o <<pdu.FunctionCode>> \o pdu.Data

\* the transaction id an ADU carries
TxnOf(adu) == BigEndianUint16(adu, 0)

\* A call of Encode: the client and which of its tcpClients served it, its
\* ordinal n on that tcpClient since the first step (base: the low half of
\* the count before), and whether another Encode on it was under way.
NoCall == [cl |-> 0, inst |-> 0, base |-> 0, n |-> 0, overlap |-> FALSE]

CInitWith(p) ==
    /\ transactionId = p
    /\ cid = [c \in Clients |-> 1]
    /\ inst = [c \in Clients |-> 0]
    /\ prior = p
    /\ made = [c \in Clients |-> 0]
    /\ epc = [e \in Encoders |-> "idle"]
    /\ ecl = [e \in Encoders |-> NoCall]
    /\ etx = [e \in Encoders |-> 0]
    /\ issued = {}

\* NewSClient(id, "tcp") for each client, perhaps followed by earlier Encodes
CInit == \E p \in [Clients -> PriorEncodes] : CInitWith(p)

\* the client group at rest, for the specifications that do not move it
CQuiet == CInitWith([c \in Clients |-> Zero32])

EncodesBegun == Cardinality(issued) + Cardinality({e \in Encoders : epc[e] = "put"})

\* calls of MBClient.Set made so far, over all clients
SetsMade == Cardinality({x \in Clients \X (1..MaxSets) : x[2] <= inst[x[1]]})

\* tcpClient.Encode, up to and including
\*   transactionId := atomic.AddUint32(&tcp.transactionId, 1)
\* (a typed request builder with arguments in range is this call). The
\* calling goroutines are interchangeable: the idle one of lowest number calls.
EncodeAdd(e, c) ==
    /\ epc[e] = "idle"
    /\ \A f \in Encoders : f < e => epc[f] # "idle"
    /\ EncodesBegun < MaxEncodes
    /\ transactionId' = [transactionId EXCEPT ![c] = AddUint32(transactionId[c], 1)]
    /\ etx' = [etx EXCEPT ![e] = AddUint32(transactionId[c], 1)]
    /\ made' = [made EXCEPT ![c] = made[c] + 1]
    /\ ecl' = [ecl EXCEPT ![e] =
                  [cl |-> c, inst |-> inst[c], base |-> prior[c][2], n |-> made[c] + 1,
                   overlap |-> \E f \in Encoders \ {e} :
                                   /\ epc[f] = "put"
                                   /\ ecl[f].cl = c
                                   /\ ecl[f].inst = inst[c]]]
    /\ epc' = [epc EXCEPT ![e] = "put"]
    /\ UNCHANGED <<cid, inst, prior, issued>>
    /\ UNCHANGED <<tvars, bvars, kvars, rvars, lvars>>

\* tcpClient.Encode, the rest: the header and the PDU are written into adu.
EncodePut(e) ==
    /\ epc[e] = "put"
    /\ issued' = issued \cup
          {[call |-> ecl[e], adu |-> TcpEncode(etx[e], cid[ecl[e].cl], ReadHoldingPdu)]}
    /\ epc' = [epc EXCEPT ![e] = "idle"]
    /\ UNCHANGED <<transactionId, cid, inst, prior, made, ecl, etx>>
    /\ UNCHANGED <<tvars, bvars, kvars, rvars, lvars>>

\* tcpClient.SetID
SetID(c, id) ==
    /\ cid[c] # id
    /\ cid' = [cid EXCEPT ![c] = id]
    /\ UNCHANGED <<transactionId, inst, prior, made, epc, ecl, etx, issued>>
    /\ UNCHANGED <<tvars, bvars, kvars, rvars, lvars>>

\* MBClient.Set(id, "tcp"): mbc.ApiClient = newTcpClient(), then SetID(id)
Set(c, id) ==
    /\ SetsMade < MaxSets
    /\ transactionId' = [transactionId EXCEPT ![c] = Zero32]
    /\ inst' = [inst EXCEPT ![c] = inst[c] + 1]
    /\ prior' = [prior EXCEPT ![c] = Zero32]
    /\ made' = [made EXCEPT ![c] = 0]
    /\ cid' = [cid EXCEPT ![c] = id]
    /\ UNCHANGED <<epc, ecl, etx, issued>>
    /\ UNCHANGED <<tvars, bvars, kvars, rvars, lvars>>

(***************************************************************************)
(* The blacklist: src/unnamed/part_002 (counters are uint16) and           *)
(* src/unnamed/part_003 (counters are uint).                               *)
(***************************************************************************)
Ids == 1..NumIds
Versions == {"uint16", "uint"}

\* n as the counter type holds it: uint16 wraps at 65536; uint wraps at 2^64
\* (2^32 on 32-bit builds), which no count made here comes near
Wrap(v, n) == IF v = "uint16" THEN n % 65536 ELSE n

\* consecutive Get(id) calls already made on a fresh blacklist before the
\* first step shown here: none, or two short of the 16-bit range
PriorGets == {0, 65534}

\* the timeoutClean arguments NewBlacklist is called with, in minutes
TimeoutCleans == {0, 1}

\* no run of consecutive Gets from a zero counter is under way
Broken == 0 - 1
NoGet == [id |-> 0, blocked |-> FALSE, notresponse |-> 0, k |-> Broken, limit |-> 0,
          set |-> FALSE, fired |-> FALSE]

\* bl.list[id]: a missing key reads as the zero value
Count(l, id) == IF id \in DOMAIN l THEN l[id] ELSE 0

\* bl.list[id] = n
Store(l, id, n) == [i \in DOMAIN l \cup {id} |-> IF i = id THEN n ELSE l[i]]

\* Get's first result: bl.list[id] > bl.limit
Blocked(count, lim) == count > lim

\* a Get that compares after its increment: bl.list[id]+1 == bl.limit
NoticeAhead(count, lim) == count + 1 = lim

\* Get's test before the increment: if bl.list[id] == bl.limit { nblock(id) }
Notice(count, lim) == count = lim

\* a Clean that replaces the map: bl.list = make(map[byte]uint)
Remade(l) == <<>>

\* Clean's loop: for n := range bl.list { bl.list[n] = 0 }
Zeroed(l) == [i \in DOMAIN l |-> 0]

\* time.NewTicker panicked: there is no ticker and init did not return
NoTicker == 0 - 1

\* time.NewTicker(d): panics unless d > 0
NewTicker(d) == IF d > 0 THEN d ELSE NoTicker

\* init's bl.timeout, in minutes. part_002 tests the field while it still
\* holds its zero value (and stores a Duration of 60 there), then overwrites
\* it with time.Duration(timeout) * time.Minute; part_003 stores the argument
\* and then replaces a zero by 60.
InitTimeout(v, tc) ==
    IF v = "uint16"
    THEN LET field == 0
             defaulted == IF field = 0 THEN 60 ELSE field
             assigned == tc
         IN  assigned
    ELSE IF tc = 0 THEN 60 ELSE tc

\* nblock(id) calls a blacklist has made for id by the time its counter,
\* started at 0, has been moved by `before` consecutive Get(id) calls
PriorFires(v, lim, before, set) ==
    IF set /\ lim > 0 /\ before > lim THEN 1 ELSE 0

BInitWith(v, lim, before, tc, cl, bk) ==
    /\ version = v
    /\ limit = lim
    /\ list = IF before = 0 THEN <<>> ELSE [i \in {1} |-> Wrap(v, before)]
    /\ run = [i \in Ids |-> IF i = 1 /\ lim > 0 THEN before ELSE 0]
    /\ got = NoGet
    /\ incs = 0
    /\ timeoutClean = tc
    /\ bltimeout = InitTimeout(v, tc)
    /\ ticker = NewTicker(InitTimeout(v, tc))
    /\ nclean = cl
    /\ nblock = bk
    /\ tpc = "wait"
    /\ tick = [calls |-> 0, late |-> FALSE, stable |-> FALSE, hit |-> FALSE,
               done |-> FALSE]
    /\ fires = [i \in Ids |-> IF i = 1 THEN PriorFires(v, lim, before, bk) ELSE 0]
    /\ since = [i \in Ids |->
                  [blocked |-> i = 1 /\ lim > 0 /\ before > lim,
                   fired |-> i = 1 /\ PriorFires(v, lim, before, bk) > 0]]

\* NewBlacklist(limit, 1), perhaps followed by SetNoticeDeviceBlock and by
\* earlier Get(1) calls
BInit ==
    \E v \in Versions, lim \in 0..MaxLimit, before \in PriorGets, bk \in BOOLEAN :
        /\ before > 0 => lim > 0
        /\ BInitWith(v, lim, before, 1, FALSE, bk)

\* NewBlacklist(limit, timeoutClean), perhaps followed by SetNoticeClean
TickerInit ==
    \E v \in Versions, lim \in 1..MaxLimit, tc \in TimeoutCleans, cl \in BOOLEAN :
        BInitWith(v, lim, 0, tc, cl, FALSE)

\* the blacklist group at rest, for the specifications that do not move it
BQuiet == BInitWith("uint", 0, 0, 1, FALSE, FALSE)

\* init returned: NewTicker did not panic under the mutex
Made == ticker # NoTicker

\* Get(id): (false, 0) without a limit; else the callback test, the
\* increment, and (bl.list[id] > bl.limit, bl.list[id]).
GetLocked(id) ==
    /\ Made
    /\ IF limit = 0
       THEN /\ got' = [id |-> id, blocked |-> FALSE, notresponse |-> 0,
                       k |-> Broken, limit |-> limit, set |-> nblock, fired |-> FALSE]
            /\ UNCHANGED <<list, run, incs, fires, since>>
       ELSE LET n == Wrap(version, Count(list, id) + 1)
                k == IF run[id] = Broken THEN Broken ELSE run[id] + 1
                f == Notice(Count(list, id), limit) /\ nblock
            IN  /\ incs < MaxIncs
                /\ incs' = incs + 1
                /\ list' = Store(list, id, n)
                /\ run' = [run EXCEPT ![id] = k]
                /\ fires' = [fires EXCEPT ![id] = IF f THEN Min(@ + 1, 2) ELSE @]
                /\ since' = [since EXCEPT ![id] =
                                [blocked |-> @.blocked \/ Blocked(n, limit),
                                 fired |-> n # 0 /\ (@.fired \/ f)]]
                /\ got' = [id |-> id, blocked |-> Blocked(n, limit),
                           notresponse |-> n, k |-> k, limit |-> limit,
                           set |-> nblock, fired |-> f]
    /\ UNCHANGED <<version, limit, timeoutClean, bltimeout, ticker, nclean, nblock, tpc, tick>>

\* Get(id), with nothing else moving
Get(id) ==
    /\ GetLocked(id)
    /\ UNCHANGED <<tvars, cvars, kvars, rvars, lvars>>

\* Plus(id): bl.list[id]++ when there is a limit
PlusLocked(id) ==
    /\ Made
    /\ limit > 0
    /\ incs < MaxIncs
    /\ incs' = incs + 1
    /\ list' = Store(list, id, Wrap(version, Count(list, id) + 1))
    /\ run' = [run EXCEPT ![id] = Broken]
    /\ since' = [since EXCEPT ![id].fired =
                    Wrap(version, Count(list, id) + 1) # 0 /\ @]
    /\ UNCHANGED <<version, limit, got, timeoutClean, bltimeout, ticker, nclean, nblock,
                   tpc, tick, fires>>

\* Plus(id), with nothing else moving
Plus(id) ==
    /\ PlusLocked(id)
    /\ UNCHANGED <<tvars, cvars, kvars, rvars, lvars>>

\* Nullify(id): bl.list[id] = 0
NullifyLocked(id) ==
    /\ Made
    /\ list' = Store(list, id, 0)
    /\ run' = [run EXCEPT ![id] = 0]
    /\ fires' = [fires EXCEPT ![id] = 0]
    /\ since' = [since EXCEPT ![id] = [blocked |-> FALSE, fired |-> FALSE]]
    /\ UNCHANGED <<version, limit, got, incs, timeoutClean, bltimeout, ticker, nclean,
                   nblock, tpc, tick>>

\* Nullify(id), with nothing else moving
Nullify(id) ==
    /\ NullifyLocked(id)
    /\ UNCHANGED <<tvars, cvars, kvars, rvars, lvars>>

\* the body of Clean(): nclean() if set, then every key of the list is set to 0
CleanBody ==
    /\ list' = Zeroed(list)
    /\ run' = [i \in Ids |-> IF i \in DOMAIN list THEN 0 ELSE run[i]]
    /\ fires' = [i \in Ids |-> IF i \in DOMAIN list THEN 0 ELSE fires[i]]
    /\ since' = [i \in Ids |-> [blocked |-> FALSE, fired |-> FALSE]]
    /\ UNCHANGED <<version, limit, got, incs, timeoutClean, bltimeout, ticker, nclean, nblock>>

\* Clean(), called by the user of the blacklist
CleanLocked ==
    /\ Made
    /\ CleanBody
    /\ UNCHANGED <<tpc, tick>>

\* Clean(), with nothing else moving
Clean ==
    /\ CleanLocked
    /\ UNCHANGED <<tvars, cvars, kvars, rvars, lvars>>

\* SetLimitFailedSendes(value)
SetLimitFailedSendesLocked(value) ==
    /\ Made
    /\ value # limit
    /\ limit' = value
    /\ run' = [i \in Ids |-> IF Count(list, i) = 0 /\ value > 0 THEN 0 ELSE Broken]
    /\ fires' = [i \in Ids |-> 0]
    /\ since' = [i \in Ids |-> [since[i] EXCEPT !.blocked = FALSE]]
    /\ UNCHANGED <<version, list, got, incs, timeoutClean, bltimeout, ticker, nclean,
                   nblock, tpc, tick>>

\* SetLimitFailedSendes(value), with nothing else moving
SetLimitFailedSendes(value) ==
    /\ SetLimitFailedSendesLocked(value)
    /\ UNCHANGED <<tvars, cvars, kvars, rvars, lvars>>

\* SetNoticeClean(fn): fn is nil (FALSE) or a function (TRUE)
SetNoticeCleanLocked(fn) ==
    /\ Made
    /\ fn # nclean
    /\ nclean' = fn
    /\ tick' = [tick EXCEPT !.stable = FALSE]
    /\ UNCHANGED <<version, limit, list, run, got, incs, timeoutClean, bltimeout, ticker,
                   nblock, tpc, fires, since>>

\* SetNoticeClean(fn), with nothing else moving
SetNoticeClean(fn) ==
    /\ SetNoticeCleanLocked(fn)
    /\ UNCHANGED <<tvars, cvars, kvars, rvars, lvars>>

\* SetNoticeDeviceBlock(fn) (SetDeviceBlock in part_003)
SetNoticeDeviceBlockLocked(fn) ==
    /\ Made
    /\ fn # nblock
    /\ nblock' = fn
    /\ UNCHANGED <<version, limit, list, run, got, incs, timeoutClean, bltimeout, ticker,
                   nclean, tpc, tick, fires, since>>

\* SetNoticeDeviceBlock(fn), with nothing else moving
SetNoticeDeviceBlock(fn) ==
    /\ SetNoticeDeviceBlockLocked(fn)
    /\ UNCHANGED <<tvars, cvars, kvars, rvars, lvars>>

\* The ticker delivers a tick: the goroutine init started takes it from
\* bl.ticker.C and enters the body of its loop.
TickerTickBody ==
    /\ Made
    /\ tpc = "wait"
    /\ tpc' = IF version = "uint" THEN "notice" ELSE "clean"
    /\ tick' = [calls |-> 0, late |-> FALSE, stable |-> nclean, hit |-> FALSE,
                done |-> FALSE]
    /\ UNCHANGED <<version, limit, list, run, got, incs, timeoutClean, bltimeout, ticker,
                   nclean, nblock, fires, since>>

\* the tick, with nothing else moving
TickerTick ==
    /\ TickerTickBody
    /\ UNCHANGED <<tvars, cvars, kvars, rvars, lvars>>

\* part_003's loop body, first statement, outside the mutex:
\*   if bl.nclean != nil { bl.nclean() }
TickerNoticeBody ==
    /\ tpc = "notice"
    /\ tpc' = "clean"
    /\ tick' = IF nclean THEN [tick EXCEPT !.calls = @ + 1] ELSE tick
    /\ UNCHANGED <<version, limit, list, run, got, incs, timeoutClean, bltimeout, ticker,
                   nclean, nblock, fires, since>>

\* the loop's own nclean(), with nothing else moving
TickerNotice ==
    /\ TickerNoticeBody
    /\ UNCHANGED <<tvars, cvars, kvars, rvars, lvars>>

\* the loop body's bl.Clean(): nclean() if set, then the counters are zeroed
TickerCleanLocked ==
    /\ tpc = "clean"
    /\ tpc' = "wait"
    /\ CleanBody
    /\ tick' = [tick EXCEPT !.calls = IF nclean THEN @ + 1 ELSE @,
                            !.hit = \E i \in DOMAIN list : list[i] > 0,
                            !.done = TRUE]

\* the loop's bl.Clean(), with nothing else moving
TickerClean ==
    /\ TickerCleanLocked
    /\ UNCHANGED <<tvars, cvars, kvars, rvars, lvars>>

(***************************************************************************)
(* blacklist.mutex.  Every operation of the blacklist begins with          *)
(* bl.mutex.Lock() and ends with bl.mutex.Unlock(), and nblock and nclean  *)
(* are called in between.  A sync.Mutex has no owner: Lock blocks while    *)
(* the mutex is locked, whichever goroutine locked it.                     *)
(***************************************************************************)
\* the goroutines that call the blacklist, and the one init starts:
\*   go func() { for range bl.ticker.C { ... } }()
Callers == 1..NumCallers
TickerLoop == NumCallers + 1
Goroutines == Callers \cup {TickerLoop}

\* what a function set as nblock or nclean may do
CallbackDoes == {"return", "Nullify", "Get"}

\* the calls a goroutine makes, all about one id; a limit is 0 or 1, and
\* fn is 1 for a function and 0 for nil
Calls ==
    [op : {"Get", "Plus", "Nullify"}, arg : {1}]
        \cup [op : {"Clean"}, arg : {0}]
        \cup [op : {"SetLimitFailedSendes"}, arg : {0, 1}]
        \cup [op : {"SetNoticeClean", "SetNoticeDeviceBlock"}, arg : {0, 1}]

\* the call has been made and is at bl.mutex.Lock()
Frame(op, arg) == [op |-> op, arg |-> arg, pc |-> "lock"]

\* the innermost call of goroutine g that has not returned
Top(g) == stack[g][Len(stack[g])]
At(g, place) == Len(stack[g]) > 0 /\ Top(g).pc = place

\* the Get and Plus calls of the goroutines in G that have not returned
IsIncrement(fr) == fr.op \in {"Get", "Plus"}
RECURSIVE Pending(_)
Pending(G) ==
    IF G = {} THEN 0
    ELSE LET g == CHOOSE x \in G : TRUE
         IN  Len(SelectSeq(stack[g], IsIncrement)) + Pending(G \ {g})

\* the callback the call calls with the mutex held, "none" if it calls none:
\*   Get:    if bl.list[id] == bl.limit { if bl.nblock != nil { bl.nblock(id) } }
\*   Clean:  if bl.nclean != nil { bl.nclean() }
Notifies(fr) ==
    CASE fr.op = "Get" ->
            IF limit > 0 /\ Notice(Count(list, fr.arg), limit) /\ nblock
            THEN "nblock" ELSE "none"
      [] fr.op \in {"Clean", "TickerClean"} -> IF nclean THEN "nclean" ELSE "none"
      [] OTHER -> "none"

\* the call a callback makes: nblock(id) on the id it is given, nclean() on id 1
Reentry(cb, fr) == Frame(does[cb], IF cb = "nblock" THEN fr.arg ELSE 1)

\* what the call does to the blacklist between Lock and Unlock
Effect(fr) ==
    CASE fr.op = "Get" -> GetLocked(fr.arg)
      [] fr.op = "Plus" -> IF limit > 0 THEN PlusLocked(fr.arg) ELSE UNCHANGED bvars
      [] fr.op = "Nullify" -> NullifyLocked(fr.arg)
      [] fr.op = "Clean" -> CleanLocked
      [] fr.op = "TickerClean" -> TickerCleanLocked
      [] fr.op = "SetLimitFailedSendes" ->
            IF fr.arg # limit THEN SetLimitFailedSendesLocked(fr.arg) ELSE UNCHANGED bvars
      [] fr.op = "SetNoticeClean" ->
            IF (fr.arg = 1) # nclean THEN SetNoticeCleanLocked(fr.arg = 1)
            ELSE UNCHANGED bvars
      [] fr.op = "SetNoticeDeviceBlock" ->
            IF (fr.arg = 1) # nblock THEN SetNoticeDeviceBlockLocked(fr.arg = 1)
            ELSE UNCHANGED bvars

LInitWith(d) ==
    /\ mutex = Unlocked
    /\ stack = [g \in Goroutines |-> <<>>]
    /\ does = d

\* SetNoticeDeviceBlock and SetNoticeClean are given functions that return,
\* or that call bl.Nullify, or that call bl.Get
LInit == \E d \in CallbackDoes : LInitWith([nblock |-> d, nclean |-> d])

\* the mutex group at rest, for the specifications that do not move it
LQuiet == LInitWith([nblock |-> "return", nclean |-> "return"])

\* goroutine g calls an operation of the blacklist
Call(g, c) ==
    /\ Made
    /\ Len(stack[g]) = 0
    /\ IsIncrement(c) => incs + Pending(Goroutines) < MaxLockedIncs
    /\ stack' = [stack EXCEPT ![g] = <<Frame(c.op, c.arg)>>]
    /\ UNCHANGED <<mutex, does>>
    /\ UNCHANGED <<tvars, cvars, bvars, kvars, rvars>>

\* bl.mutex.Lock() returns in goroutine g: the mutex was unlocked
Lock(g) ==
    /\ At(g, "lock")
    /\ mutex = Unlocked
    /\ mutex' = g
    /\ stack' = [stack EXCEPT ![g][Len(stack[g])].pc = "held"]
    /\ UNCHANGED does
    /\ UNCHANGED <<tvars, cvars, bvars, kvars, rvars>>

\* with the mutex held, the call tests for its callback and calls it: the
\* function returns at once, or makes its own call of the blacklist first
Callback(g) ==
    /\ At(g, "held")
    /\ LET cb == Notifies(Top(g))
           past == [stack EXCEPT ![g][Len(stack[g])].pc = "body"]
       IN  stack' = IF cb = "none" \/ does[cb] = "return" THEN past
                    ELSE [past EXCEPT ![g] = Append(@, Reentry(cb, Top(g)))]
    /\ UNCHANGED <<mutex, does>>
    /\ UNCHANGED <<tvars, cvars, bvars, kvars, rvars>>

\* the rest of the call: its effect, bl.mutex.Unlock(), and the return
Return(g) ==
    /\ At(g, "body")
    /\ Effect(Top(g))
    /\ mutex' = Unlocked
    /\ stack' = [stack EXCEPT ![g] = SubSeq(@, 1, Len(@) - 1)]
    /\ UNCHANGED does
    /\ UNCHANGED <<tvars, cvars, kvars, rvars>>

\* the ticker goroutine takes a tick from bl.ticker.C
LoopTick ==
    /\ Len(stack[TickerLoop]) = 0
    /\ TickerTickBody
    /\ UNCHANGED <<tvars, cvars, kvars, rvars, lvars>>

\* part_003's loop calls nclean itself, before bl.Clean() and without the mutex
LoopNotice ==
    /\ Len(stack[TickerLoop]) = 0
    /\ TickerNoticeBody
    /\ IF nclean /\ does.nclean # "return"
       THEN /\ does.nclean = "Get" => incs + Pending(Goroutines) < MaxLockedIncs
            /\ stack' = [stack EXCEPT ![TickerLoop] = <<Frame(does.nclean, 1)>>]
       ELSE UNCHANGED stack
    /\ UNCHANGED <<mutex, does>>
    /\ UNCHANGED <<tvars, cvars, kvars, rvars>>

\* the loop calls bl.Clean()
LoopClean ==
    /\ Len(stack[TickerLoop]) = 0
    /\ tpc = "clean"
    /\ stack' = [stack EXCEPT ![TickerLoop] = <<Frame("TickerClean", 0)>>]
    /\ UNCHANGED <<mutex, does>>
    /\ UNCHANGED <<tvars, cvars, bvars, kvars, rvars>>

(***************************************************************************)
(* The framing codec (src/client.go).  An ADU is a sequence of bytes; an   *)
(* ASCII frame is the sequence of its characters' codes, so that a bit of  *)
(* a character can be flipped as on the line.                              *)
(***************************************************************************)
\* the frame sizes and delimiters the codec is compiled with
rtuMinSize == 4
rtuMaxSize == 256
tcpHeaderSize == 7
tcpMaxLength == 260
asciiStart == <<58>>
asciiEnd == <<13, 10>>
asciiMaxSize == 513
\* asciiClient.Verify reports asciiMinSize+6 as the minimum 9
asciiMinSize == 3
\* "0123456789ABCDEF"
asciiHexTable == <<48, 49, 50, 51, 52, 53, 54, 55, 56, 57, 65, 66, 67, 68, 69, 70>>

\* An error is written as the text of its message without the values it
\* quotes; NoError is the nil error.

\* a ^ b on unsigned integers
RECURSIVE Xor(_, _)
Xor(a, b) ==
    IF a = 0 THEN b
    ELSE IF b = 0 THEN a
    ELSE ((a + b) % 2) + 2 * Xor(a \div 2, b \div 2)

\* s[from:to] of Go, on a sequence indexed from 1
Slice(s, from, to) == SubSeq(s, from + 1, to)

\* crc: CRC-16 with the reflected polynomial 0xA001, from 0xFFFF, no final
\* xor; the table entry of a byte is the byte shifted out bit by bit
RECURSIVE CrcShift(_, _)
CrcShift(reg, n) ==
    IF n = 0 THEN reg
    ELSE CrcShift(IF reg % 2 = 1 THEN Xor(reg \div 2, 40961) ELSE reg \div 2, n - 1)

crcTable == [i \in 0..255 |-> CrcShift(i, 8)]

\* crc.pushByte: the register shifted right one byte and xored with the
\* table entry of its low byte xor the input
CrcStep(reg, b) == Xor(reg \div 256, crcTable[Xor(reg % 256, b)])

\* crc.pushBytes over bs[lo..hi], the bytes taken in their order: the first
\* half is pushed, then the second half onto the register it left
RECURSIVE CrcPush(_, _, _, _)
CrcPush(reg, bs, lo, hi) ==
    IF lo > hi THEN reg
    ELSE IF lo = hi THEN CrcStep(reg, bs[lo])
    ELSE LET mid == (lo + hi) \div 2
             left == CrcPush(reg, bs, lo, mid)
         IN IF left >= 0 THEN CrcPush(left, bs, mid + 1, hi) ELSE left

\* crc.reset().pushBytes(bs).value()
Crc(bs) == CrcPush(65535, bs, 1, Len(bs))

\* lrc.pushBytes over bs[lo..hi]: the sum of the bytes modulo 256
RECURSIVE LrcSum(_, _, _)
LrcSum(bs, lo, hi) ==
    IF lo > hi THEN 0
    ELSE IF lo = hi THEN bs[lo]
    ELSE (LrcSum(bs, lo, (lo + hi) \div 2) + LrcSum(bs, (lo + hi) \div 2 + 1, hi)) % 256

\* lrc.reset().pushBytes(bs).value(): the sum negated in two's complement
Lrc(bs) == (256 - LrcSum(bs, 1, Len(bs))) % 256

\* byte(v) and byte(v >> 8) of a uint16
HighByte(v) == v \div 256
\* byte(v >> 8) where byte(v) is meant
LowByteShifted(v) == v \div 256
LowByte(v) == v % 256

\* writeHex: two characters of asciiHexTable per byte
writeHex(value) ==
    [i \in 1..(2 * Len(value)) |->
        IF i % 2 = 1 THEN asciiHexTable[(value[(i + 1) \div 2] \div 16) + 1]
        ELSE asciiHexTable[(value[i \div 2] % 16) + 1]]

\* encoding/hex: the value of a character, 16 for one that is no hex digit;
\* digits and both cases of the letters a to f are accepted
fromHexChar(c) ==
    IF c >= 48 /\ c <= 57 THEN c - 48
    ELSE IF c >= 97 /\ c <= 102 THEN c - 97 + 10
    ELSE IF c >= 65 /\ c <= 70 THEN c - 65 + 10
    ELSE 16

\* hex.Decode: [bytes, err], the bytes being those decoded before the error;
\* a last character without its pair is an error of its own
hexDecode(src) ==
    LET n == Len(src) \div 2
        Bad(j) == fromHexChar(src[2 * j - 1]) = 16 \/ fromHexChar(src[2 * j]) = 16
        good == IF \E j \in 1..n : Bad(j)
                THEN (CHOOSE j \in 1..n : Bad(j) /\ \A k \in 1..(j - 1) : ~Bad(k)) - 1
                ELSE n
    IN [bytes |-> [j \in 1..good |-> fromHexChar(src[2 * j - 1]) * 16 + fromHexChar(src[2 * j])],
        err |-> IF good < n THEN "encoding/hex: invalid byte"
                ELSE IF Len(src) % 2 = 0 THEN NoError
                ELSE IF fromHexChar(src[Len(src)]) = 16 THEN "encoding/hex: invalid byte"
                ELSE "encoding/hex: odd length hex string"]

\* readHex: hex.Decode of data[0:2]: [value, err]
readHex(chars) ==
    LET d == hexDecode(SubSeq(chars, 1, 2))
    IN [value |-> IF d.err = NoError THEN d.bytes[1] ELSE 0, err |-> d.err]

\* dataBlock: each 16-bit word in big-endian order
RECURSIVE dataBlock(_)
dataBlock(value) ==
    IF value = <<>> THEN <<>> ELSE PutUint16(Head(value)) \o dataBlock(Tail(value))

\* dataBlockSuffix: the words, then the length of the suffix in one byte,
\* then the suffix
dataBlockSuffix(suffix, value) == dataBlock(value) \o <<Len(suffix) % 256>> \o suffix

\* arguments the request builders are called with
Addresses == {0, 107}
Registers == {0, 43981}
Suffixes == {<<1>>, <<171, 205>>}

\* The PDUs the eleven request builders of MBClient hand to Encode when their
\* arguments are valid, by function code.
BuiltPdus ==
    LET Of(fc, blocks) == {[FunctionCode |-> fc, Data |-> d] : d \in blocks}
    IN  \* ReadCoils, ReadDiscreteInputs: quantity in 1..2000
           UNION {Of(fc, {dataBlock(<<a, q>>) : a \in Addresses, q \in {1, 2000}}) : fc \in {1, 2}}
        \* ReadHoldingRegisters, ReadInputRegisters: quantity in 1..125
        \cup UNION {Of(fc, {dataBlock(<<a, q>>) : a \in Addresses, q \in {1, 125}}) : fc \in {3, 4}}
        \* WriteSingleCoil: 0xFF00 or 0x0000
        \cup Of(5, {dataBlock(<<a, v>>) : a \in Addresses, v \in {65280, 0}})
        \* WriteSingleRegister
        \cup Of(6, {dataBlock(<<a, v>>) : a \in Addresses, v \in Registers})
        \* WriteMultipleCoils: quantity in 1..1968
        \cup Of(15, {dataBlockSuffix(s, <<a, 8 * Len(s)>>) : a \in Addresses, s \in Suffixes})
        \cup Of(15, {dataBlockSuffix([i \in 1..246 |-> (i * 7) % 256], <<0, 1968>>)})
        \* WriteMultipleRegisters: quantity in 1..123
        \cup Of(16, {dataBlockSuffix(s, <<a, 1>>) : a \in Addresses, s \in {<<171, 205>>}})
        \* MaskWriteRegister
        \cup Of(22, {dataBlock(<<a, v, 65535>>) : a \in Addresses, v \in Registers})
        \* ReadWriteMultipleRegisters: read quantity in 1..125, write in 1..121
        \cup Of(23, {dataBlockSuffix(s, <<a, 125, a, 1>>) : a \in Addresses, s \in {<<171, 205>>}})
        \* ReadFIFOQueue
        \cup Of(24, {dataBlock(<<a>>) : a \in Addresses})

\* a PDU whose data is n bytes long, as ApiClient.Encode accepts from any caller
LongPdu(n) == [FunctionCode |-> 16, Data |-> [i \in 1..n |-> (i * 7) % 256]]

\* the nil *ProtocolDataUnit and the empty one, &ProtocolDataUnit{}
NilPdu == [FunctionCode |-> 0 - 1, Data |-> <<>>]
EmptyPdu == [FunctionCode |-> 0, Data |-> <<>>]

\* an RTU encoder that appends the CRC high byte first
RtuEncodeHighFirst(id, pdu) ==
    LET body == <<id, pdu.FunctionCode>> \o pdu.Data
        checksum == Crc(body)
    IN IF Len(pdu.Data) + 4 > rtuMaxSize
       THEN [adu |-> <<>>, err |-> "length of data must not be bigger than"]
       ELSE [adu |-> body \o <<HighByte(checksum), LowByte(checksum)>>, err |-> NoError]

\* rtuClient.Encode: id, function, data, then the CRC, low byte first
RtuEncode(id, pdu) ==
    LET length == Len(pdu.Data) + 4
        body == <<id, pdu.FunctionCode>> \o pdu.Data
        checksum == Crc(body)
    IN IF length > rtuMaxSize
       THEN [adu |-> <<>>, err |-> "length of data must not be bigger than"]
       ELSE [adu |-> body \o <<LowByte(checksum), HighByte(checksum)>>, err |-> NoError]

\* rtuClient.Verify
RtuVerify(aduReq, aduResp) ==
    IF Len(aduResp) < rtuMinSize THEN "response length does not meet minimum"
    ELSE IF aduResp[1] # aduReq[1] THEN "response slave id does not match request"
    ELSE NoError

\* a Decode that does not compare the frame's id with the client's
AddressIgnored(id, b) == NoError

\* if rtu.id != adu[0] { err = ... } and if tcp.id != adu[6] { err = ... }:
\* err is set and Decode goes on to fill the PDU
InvalidAddress(id, b) == IF id # b THEN "invalid address" ELSE NoError

\* rtuClient.Decode with the CRC left out of the comparison
RtuDecodeUnchecked(id, adu) ==
    [pdu |-> [FunctionCode |-> adu[2], Data |-> Slice(adu, 2, Len(adu) - 2)],
     err |-> InvalidAddress(id, adu[1])]

\* rtuClient.Decode: the CRC, then the address; an address that differs is
\* reported with the PDU still returned
RtuDecode(id, adu) ==
    LET length == Len(adu)
        checksum == adu[length] * 256 + adu[length - 1]
    IN IF checksum # Crc(Slice(adu, 0, length - 2))
       THEN [pdu |-> NilPdu, err |-> "response crc does not match expected"]
       ELSE [pdu |-> [FunctionCode |-> adu[2], Data |-> Slice(adu, 2, length - 2)],
             err |-> InvalidAddress(id, adu[1])]

\* tcpClient.Encode: the counter advanced, then the frame; no error is returned
TcpClientEncode(before, id, pdu) ==
    [adu |-> TcpEncode(AddUint32(before, 1), id, pdu), err |-> NoError]

\* tcpClient.Verify with the protocol id left out of the comparison
TcpVerifyNoProtocol(aduReq, aduResp) ==
    IF BigEndianUint16(aduResp, 0) # BigEndianUint16(aduReq, 0)
    THEN "response transaction id does not match request"
    ELSE IF aduResp[7] # aduReq[7]
    THEN "response unit id does not match request"
    ELSE NoError

\* tcpClient.Verify: transaction id, protocol id, unit id, in this order
TcpVerify(aduReq, aduResp) ==
    IF BigEndianUint16(aduResp, 0) # BigEndianUint16(aduReq, 0)
    THEN "response transaction id does not match request"
    ELSE IF BigEndianUint16(aduResp, 2) # BigEndianUint16(aduReq, 2)
    THEN "response protocol id does not match request"
    ELSE IF aduResp[7] # aduReq[7]
    THEN "response unit id does not match request"
    ELSE NoError

\* the length field taken as the PDU's length, the unit id not counted off
PduLengthWhole(length) == length

\* int(length-1) of the uint16 length field
PduLength(length) == (length + 65535) % 65536

\* tcpClient.Decode: the length field against the frame, then the unit id
TcpDecode(id, adu) ==
    LET length == BigEndianUint16(adu, 4)
        pduLength == Len(adu) - tcpHeaderSize
    IN IF pduLength <= 0 \/ pduLength # PduLength(length)
       THEN [pdu |-> NilPdu, err |-> "length in response does not match pdu data length"]
       ELSE [pdu |-> [FunctionCode |-> adu[tcpHeaderSize + 1],
                      Data |-> Slice(adu, tcpHeaderSize + 1, Len(adu))],
             err |-> InvalidAddress(id, adu[7])]

\* asciiClient.Encode: colon, the hex of id, function, data and LRC, CR LF; no
\* error is returned (a bytes.Buffer write does not fail)
AsciiEncode(id, pdu) ==
    [adu |-> asciiStart \o writeHex(<<id, pdu.FunctionCode>>) \o writeHex(pdu.Data)
                 \o writeHex(<<Lrc(<<id, pdu.FunctionCode>> \o pdu.Data)>>) \o asciiEnd,
     err |-> NoError]

\* the least length asciiClient.Verify accepts, and one six characters above
AsciiMinimumWide == asciiMinSize + 12
AsciiMinimum == asciiMinSize + 6

\* asciiClient.Verify
AsciiVerify(aduReq, aduResp) ==
    LET length == Len(aduResp)
        responseVal == readHex(Slice(aduResp, 1, length))
        requestVal == readHex(Slice(aduReq, 1, Len(aduReq)))
    IN IF length < AsciiMinimum THEN "response length does not meet minimum"
       ELSE IF length % 2 # 1 THEN "response length is not an even number"
       ELSE IF Slice(aduResp, 0, Len(asciiStart)) # asciiStart
       THEN "response frame is not started with"
       ELSE IF Slice(aduResp, length - Len(asciiEnd), length) # asciiEnd
       THEN "response frame is not ended with"
       ELSE IF responseVal.err # NoError THEN responseVal.err
       ELSE IF requestVal.err # NoError THEN requestVal.err
       ELSE IF responseVal.value # requestVal.value
       THEN "response slave id does not match request"
       ELSE NoError

\* the panic of a slice expression whose bounds the slice does not hold (a
\* frame is taken to be a slice of its own length and capacity)
SliceOutOfRange == "panic: runtime error: slice bounds out of range"

\* asciiClient.Decode: address, function, data and LRC from their offsets,
\* each through hex.Decode, then the LRC compared.  The colon, the CR LF and
\* the client's id are not looked at.
AsciiDecode(id, adu) ==
    LET address == readHex(Slice(adu, 1, Len(adu)))
        function == readHex(Slice(adu, 3, Len(adu)))
        dataEnd == Len(adu) - 4
        chars == Slice(adu, 5, dataEnd)
        bytes == hexDecode(chars)
        dst == bytes.bytes \o [i \in 1..(Len(chars) \div 2 - Len(bytes.bytes)) |-> 0]
        lrcVal == readHex(Slice(adu, dataEnd, Len(adu)))
    IN IF Len(adu) < 3 THEN [pdu |-> NilPdu, err |-> SliceOutOfRange]
       ELSE IF address.err # NoError THEN [pdu |-> EmptyPdu, err |-> address.err]
       ELSE IF Len(adu) < 5 THEN [pdu |-> NilPdu, err |-> SliceOutOfRange]
       ELSE IF function.err # NoError
       THEN [pdu |-> [FunctionCode |-> function.value, Data |-> <<>>], err |-> function.err]
       ELSE IF dataEnd < 5 THEN [pdu |-> NilPdu, err |-> SliceOutOfRange]
       ELSE IF bytes.err # NoError
       THEN [pdu |-> [FunctionCode |-> function.value, Data |-> dst], err |-> bytes.err]
       ELSE IF lrcVal.err # NoError
       THEN [pdu |-> [FunctionCode |-> function.value, Data |-> dst], err |-> lrcVal.err]
       ELSE [pdu |-> [FunctionCode |-> function.value, Data |-> dst],
             err |-> IF lrcVal.value # Lrc(<<address.value, function.value>> \o dst)
                     THEN "response lrc does not match expected" ELSE NoError]

\* the ApiClient an MBClient holds: the method of the client its mode chose
ApiEncode(m, id, before, pdu) ==
    CASE m = "rtu" -> RtuEncode(id, pdu)
      [] m = "tcp" -> TcpClientEncode(before, id, pdu)
      [] m = "ascii" -> AsciiEncode(id, pdu)

ApiVerify(m, aduReq, aduResp) ==
    CASE m = "rtu" -> RtuVerify(aduReq, aduResp)
      [] m = "tcp" -> TcpVerify(aduReq, aduResp)
      [] m = "ascii" -> AsciiVerify(aduReq, aduResp)

ApiDecode(m, id, adu) ==
    CASE m = "rtu" -> RtuDecode(id, adu)
      [] m = "tcp" -> TcpDecode(id, adu)
      [] m = "ascii" -> AsciiDecode(id, adu)

\* the clients, ids and PDUs tried
ApiModes == {"rtu", "tcp", "ascii"}
Pdus == BuiltPdus \cup {LongPdu(n) : n \in (MaxData - 1)..MaxData}

NoFlip == [at |-> 0, bit |-> 0]
NoResult == [adu |-> <<>>, err |-> NoError]
NoDecoded == [pdu |-> NilPdu, err |-> NoError]

KInitWith(m, id, before, p) ==
    /\ api = m
    /\ slaveId = id
    /\ txnBefore = before
    /\ reqPdu = p
    /\ encoded = NoResult
    /\ flip = NoFlip
    /\ frame = <<>>
    /\ decoded = NoDecoded
    /\ response = <<>>
    /\ altered = {}
    /\ verified = NoError
    /\ kpc = "built"

\* NewSClient(id, mode), perhaps earlier Encodes on a tcpClient, and a request
\* built
KInit ==
    \E m \in ApiModes, id \in SlaveIds, before \in PriorEncodes, p \in Pdus :
        /\ m # "tcp" => before = Zero32
        /\ KInitWith(m, id, before, p)

\* the codec group at rest, for the specifications that do not move it
KQuiet == KInitWith("rtu", 1, Zero32, ReadHoldingPdu)

\* ApiClient.Encode(pdu)
Encode ==
    /\ kpc = "built"
    /\ encoded' = ApiEncode(api, slaveId, txnBefore, reqPdu)
    /\ kpc' = "encoded"
    /\ UNCHANGED <<api, slaveId, txnBefore, reqPdu, flip, frame, decoded,
                   response, altered, verified>>
    /\ UNCHANGED <<tvars, cvars, bvars, rvars, lvars>>

\* the frame reaches Decode as it was encoded
Loopback ==
    /\ kpc = "encoded"
    /\ encoded.err = NoError
    /\ frame' = encoded.adu
    /\ flip' = NoFlip
    /\ kpc' = "framed"
    /\ UNCHANGED <<api, slaveId, txnBefore, reqPdu, encoded, decoded,
                   response, altered, verified>>
    /\ UNCHANGED <<tvars, cvars, bvars, rvars, lvars>>

\* the frame reaches Decode with one bit flipped on the serial line
FlipBit ==
    /\ kpc = "encoded"
    /\ encoded.err = NoError
    /\ api \in {"rtu", "ascii"}
    /\ \E at \in DOMAIN encoded.adu, bit \in 0..7 :
           /\ frame' = [encoded.adu EXCEPT ![at] = Xor(@, 2 ^ bit)]
           /\ flip' = [at |-> at, bit |-> bit]
    /\ kpc' = "framed"
    /\ UNCHANGED <<api, slaveId, txnBefore, reqPdu, encoded, decoded,
                   response, altered, verified>>
    /\ UNCHANGED <<tvars, cvars, bvars, rvars, lvars>>

\* only the first n characters of the ASCII frame reach Decode
Truncate ==
    /\ kpc = "encoded"
    /\ encoded.err = NoError
    /\ api = "ascii"
    /\ \E n \in (0..10) \cup {Len(encoded.adu) - 1} :
           frame' = Slice(encoded.adu, 0, n)
    /\ flip' = NoFlip
    /\ kpc' = "cut"
    /\ UNCHANGED <<api, slaveId, txnBefore, reqPdu, encoded, decoded,
                   response, altered, verified>>
    /\ UNCHANGED <<tvars, cvars, bvars, rvars, lvars>>

\* ApiClient.Decode(adu)
Decode ==
    /\ kpc \in {"framed", "cut"}
    /\ decoded' = ApiDecode(api, slaveId, frame)
    /\ kpc' = IF kpc = "cut" THEN "cutdecoded" ELSE "decoded"
    /\ UNCHANGED <<api, slaveId, txnBefore, reqPdu, encoded, flip, frame,
                   response, altered, verified>>
    /\ UNCHANGED <<tvars, cvars, bvars, rvars, lvars>>

\* the request with dt, dp and du added to its transaction id, protocol id
\* and unit id (TCP), or du added to its slave address (RTU, ASCII)
Altered(m, aduReq, dt, dp, du) ==
    CASE m = "tcp" ->
           PutUint16((BigEndianUint16(aduReq, 0) + dt) % 65536)
               \o PutUint16((BigEndianUint16(aduReq, 2) + dp) % 65536)
               \o Slice(aduReq, 4, 6) \o <<(aduReq[7] + du) % 256>>
               \o Slice(aduReq, 7, Len(aduReq))
      [] m = "rtu" ->
           <<(aduReq[1] + du) % 256>> \o Slice(aduReq, 1, Len(aduReq))
      [] m = "ascii" ->
           asciiStart
               \o writeHex(<<(readHex(Slice(aduReq, 1, 3)).value + du) % 256>>)
               \o Slice(aduReq, 3, Len(aduReq))

\* a response comes back for the request: the request itself, or one that
\* differs from it in some of the header fields
Respond(dt, dp, du) ==
    /\ kpc = "encoded"
    /\ encoded.err = NoError
    /\ api # "tcp" => dt = 0 /\ dp = 0
    /\ response' = Altered(api, encoded.adu, dt, dp, du)
    /\ altered' = {f \in {"transaction", "protocol", "unit"} :
                      \/ f = "transaction" /\ dt # 0
                      \/ f = "protocol" /\ dp # 0
                      \/ f = "unit" /\ du # 0}
    /\ kpc' = "answered"
    /\ UNCHANGED <<api, slaveId, txnBefore, reqPdu, encoded, flip, frame,
                   decoded, verified>>
    /\ UNCHANGED <<tvars, cvars, bvars, rvars, lvars>>

\* ApiClient.Verify(aduReq, aduResp)
Verify ==
    /\ kpc = "answered"
    /\ verified' = ApiVerify(api, encoded.adu, response)
    /\ kpc' = "verified"
    /\ UNCHANGED <<api, slaveId, txnBefore, reqPdu, encoded, flip, frame,
                   decoded, response, altered>>
    /\ UNCHANGED <<tvars, cvars, bvars, rvars, lvars>>

\* the device answers the request with an exception: its own address, the
\* request's function code with the top bit set, one exception code, and the
\* checksum or header of the transport (the request's transaction id on TCP)
Except(code, du) ==
    /\ kpc = "encoded"
    /\ encoded.err = NoError
    /\ response' = ApiEncode(api, (slaveId + du) % 256, txnBefore,
                             [FunctionCode |-> reqPdu.FunctionCode + 128,
                              Data |-> <<code>>]).adu
    /\ altered' = {"exception"} \cup (IF du # 0 THEN {"unit"} ELSE {})
    /\ kpc' = "answered"
    /\ UNCHANGED <<api, slaveId, txnBefore, reqPdu, encoded, flip, frame,
                   decoded, verified>>
    /\ UNCHANGED <<tvars, cvars, bvars, rvars, lvars>>

\* ApiClient.Decode(aduResponse), after Verify
DecodeResponse ==
    /\ kpc = "verified"
    /\ decoded' = ApiDecode(api, slaveId, response)
    /\ kpc' = "settled"
    /\ UNCHANGED <<api, slaveId, txnBefore, reqPdu, encoded, flip, frame,
                   response, altered, verified>>
    /\ UNCHANGED <<tvars, cvars, bvars, rvars, lvars>>

(***************************************************************************)
(* The typed request builders of MBClient (src/client.go) and RTUClient     *)
(* (src/rtu_client.go), and calculateResponseLength (src/unnamed/part_001). *)
(* A builder is named by the function code it sends.                       *)
(***************************************************************************)
\* quantity < lo || quantity >= hi, where quantity > hi is meant
OutOfStrict(quantity, lo, hi) == quantity < lo \/ quantity >= hi

\* quantity < lo || quantity > hi
OutOf(quantity, lo, hi) == quantity < lo \/ quantity > hi

\* the check a builder makes before it encodes: the error it returns, or
\* NoError.  second is its second uint16 argument (quantity, value or
\* andMask), third its writeQuantity.
RangeError(fn, second, third) ==
    CASE fn \in {1, 2} ->
           IF OutOf(second, 1, 2000) THEN "quantity must be between" ELSE NoError
      [] fn \in {3, 4} ->
           IF OutOf(second, 1, 125) THEN "quantity must be between" ELSE NoError
      [] fn = 5 ->
           IF second # 65280 /\ second # 0
           THEN "state must be either 0xFF00 (ON) or 0x0000 (OFF)" ELSE NoError
      [] fn = 15 ->
           IF OutOf(second, 1, 1968) THEN "quantity must be between" ELSE NoError
      [] fn = 16 ->
           IF OutOf(second, 1, 123) THEN "quantity must be between" ELSE NoError
      [] fn = 23 ->
           IF OutOf(second, 1, 125) THEN "quantity to read must be between"
           ELSE IF OutOf(third, 1, 121) THEN "quantity to write must be between"
           ELSE NoError
      [] OTHER -> NoError

\* the Data of the PDU a builder hands to Encode
RequestData(fn, address, second, third, value) ==
    CASE fn \in {1, 2, 3, 4, 5, 6} -> dataBlock(<<address, second>>)
      [] fn \in {15, 16} -> dataBlockSuffix(value, <<address, second>>)
      [] fn = 22 -> dataBlock(<<address, second, third>>)
      [] fn = 23 -> dataBlockSuffix(value, <<address, second, address, third>>)
      [] fn = 24 -> dataBlock(<<address>>)

\* a builder of MBClient (on the ApiClient of its mode) or of RTUClient (on
\* its rtuPackager): the range error with the one-byte slice, or what Encode
\* returns for the PDU
Builder(c) ==
    IF RangeError(c.fn, c.second, c.third) # NoError
    THEN [adu |-> <<0>>, err |-> RangeError(c.fn, c.second, c.third)]
    ELSE ApiEncode(IF c.client = "RTUClient" THEN "rtu" ELSE c.mode, c.id, Zero32,
                   [FunctionCode |-> c.fn,
                    Data |-> RequestData(c.fn, c.address, c.second, c.third, c.value)])

\* count/8, where the bytes that hold count coils are meant
CoilBytesFloor(count) == count \div 8

\* count/8, and one more if count%8 != 0
CoilBytes(count) == count \div 8 + (IF count % 8 # 0 THEN 1 ELSE 0)

\* calculateResponseLength
calculateResponseLength(adu) ==
    LET count == BigEndianUint16(adu, 4)
    IN CASE adu[2] \in {2, 1} -> rtuMinSize + 1 + CoilBytes(count)
         [] adu[2] \in {4, 3, 23} -> rtuMinSize + 1 + count * 2
         [] adu[2] \in {5, 15, 6, 16} -> rtuMinSize + 4
         [] adu[2] = 22 -> rtuMinSize + 6
         [] OTHER -> rtuMinSize

\* the arguments the builders are called with
Builders == {1, 2, 3, 4, 5, 6, 15, 16, 22, 23, 24}
Seconds == {0, 1, 11, 19, 37, 121, 123, 124, 125, 126, 1968, 1969, 2000, 2001, 65280}
Thirds == {0, 1, 121, 122}
Values == {<<205>>, [i \in 1..250 |-> (i * 7) % 256]}

NoLength == 0 - 1

NoReply == [kind |-> "none", bytes |-> <<>>]
NoSent == [adu |-> <<>>, warn |-> NoError, err |-> NoError, taken |-> 0,
           flushed |-> FALSE, left |-> <<>>]

RInitWith(c) ==
    /\ bcall = c
    /\ built = NoResult
    /\ bytesToRead = NoLength
    /\ reply = NoReply
    /\ first = 0
    /\ sent = NoSent
    /\ rpc = "new"

\* NewSClient(17, mode) or an RTUClient with slave id 17, and the builder
\* call about to be made on it
RInit ==
    \E cl \in {"MBClient", "RTUClient"}, m \in ApiModes, fn \in Builders,
       a \in {0, 19}, q \in Seconds, w \in Thirds, v \in Values :
        /\ cl = "RTUClient" => m = "rtu"
        /\ fn \notin {22, 23} => w = 0
        /\ fn \notin {15, 16, 23} => v = <<205>>
        /\ fn = 24 => q = 0
        /\ RInitWith([client |-> cl, mode |-> m, id |-> 17, fn |-> fn,
                      address |-> a, second |-> q, third |-> w, value |-> v])

\* the builder group at rest, for the specifications that do not move it
RQuiet ==
    RInitWith([client |-> "MBClient", mode |-> "rtu", id |-> 17, fn |-> 24,
               address |-> 0, second |-> 0, third |-> 0, value |-> <<205>>])

\* the builder is called
Build ==
    /\ rpc = "new"
    /\ built' = Builder(bcall)
    /\ rpc' = "called"
    /\ UNCHANGED <<bcall, bytesToRead, reply, first, sent>>
    /\ UNCHANGED <<tvars, cvars, bvars, kvars, lvars>>

\* rtuTransporter.Send computes bytesToRead for the request it was given
Predict ==
    /\ rpc = "called"
    /\ built.err = NoError
    /\ bcall.client = "RTUClient" \/ bcall.mode = "rtu"
    /\ bytesToRead' = calculateResponseLength(built.adu)
    /\ rpc' = "predicted"
    /\ UNCHANGED <<bcall, built, reply, first, sent>>
    /\ UNCHANGED <<tvars, cvars, bvars, kvars, lvars>>

\* the frame a device sends back over RTU: the normal response to the
\* builder's request, n being the FIFO count of a ReadFIFOQueue response, or
\* the exception response
Zeros(n) == [i \in 1..n |-> 0]

ResponseData(c, n) ==
    CASE c.fn \in {1, 2} -> <<(c.second + 7) \div 8>> \o Zeros((c.second + 7) \div 8)
      [] c.fn \in {3, 4, 23} -> <<2 * c.second>> \o Zeros(2 * c.second)
      [] c.fn \in {5, 6, 15, 16} -> dataBlock(<<c.address, c.second>>)
      [] c.fn = 22 -> dataBlock(<<c.address, c.second, c.third>>)
      [] c.fn = 24 -> dataBlock(<<2 + 2 * n, n>>) \o Zeros(2 * n)

RtuResponse(c, kind, n) ==
    RtuEncode(c.id, IF kind = "exception"
                    THEN [FunctionCode |-> c.fn + 128, Data |-> <<2>>]
                    ELSE [FunctionCode |-> c.fn, Data |-> ResponseData(c, n)]).adu

rtuExceptionSize == 5

\* b & 0x80 and b | 0x80 of a byte b
And80(b) == (b \div 128) * 128
Or80(b) == (b % 128) + 128

\* io.ReadFull(port, data[n:upTo]) with the bytes w of the line: n and warn
\* after it (a line that has no more to give ends the read with its timeout).
\* data is a [rtuMaxSize]byte: a slice of it that ends past rtuMaxSize panics.
ReadFull(w, n, upTo) ==
    IF upTo > rtuMaxSize THEN [n |-> n, warn |-> SliceOutOfRange]
    ELSE IF Len(w) >= upTo THEN [n |-> upTo, warn |-> NoError]
    ELSE [n |-> Len(w), warn |-> "read"]

\* bytesToRead > rtuMinSize, without the test against the buffer
FitsUnbounded(toRead) == toRead > rtuMinSize

\* bytesToRead > rtuMinSize && bytesToRead <= rtuMaxSize
Fits(toRead) == toRead > rtuMinSize /\ toRead <= rtuMaxSize

\* rtuTransporter.Send from the first read on: n bytes have come; by data[1]
\* the rest of the predicted length, or the rest of an exception frame, is
\* read, or nothing more
RtuRead(aduReq, w, n, toRead) ==
    LET function == aduReq[2]
        functionFail == And80(aduReq[2])
        r == IF w[2] = function
             THEN IF n < toRead /\ Fits(toRead)
                  THEN ReadFull(w, n, toRead)
                  ELSE [n |-> n, warn |-> NoError]
             ELSE IF w[2] = functionFail
             THEN IF n < rtuExceptionSize
                  THEN ReadFull(w, n, rtuExceptionSize)
                  ELSE [n |-> n, warn |-> NoError]
             ELSE [n |-> n, warn |-> NoError]
    IN IF r.warn = SliceOutOfRange
       THEN [adu |-> <<>>, warn |-> NoError, err |-> SliceOutOfRange, taken |-> n,
             flushed |-> FALSE, left |-> Slice(w, n, Len(w))]
       ELSE [adu |-> IF r.warn = NoError THEN Slice(w, 0, r.n) ELSE <<>>,
             warn |-> r.warn, err |-> NoError, taken |-> r.n, flushed |-> FALSE,
             left |-> Slice(w, r.n, Len(w))]

\* the device answers an RTU request and rtuTransporter.Send reads the
\* answer, its first read returning rtuMinSize bytes, one more, or all
RtuSend(kind, fifo) ==
    /\ rpc = "predicted"
    /\ fifo # 0 => (bcall.fn = 24 /\ kind = "normal")
    /\ LET w == RtuResponse(bcall, kind, fifo)
       IN \E n \in {rtuMinSize, rtuMinSize + 1, Len(w)} :
              /\ reply' = [kind |-> kind, bytes |-> w]
              /\ first' = n
              /\ sent' = RtuRead(built.adu, w, n, bytesToRead)
    /\ rpc' = "read"
    /\ UNCHANGED <<bcall, built, bytesToRead>>
    /\ UNCHANGED <<tvars, cvars, bvars, kvars, lvars>>

\* the function byte of what a device may put on the line, for the function
\* code fn of the request: fn, fn | 0x80, fn & 0x80, or another; and the
\* lengths of what it may put there
FunctionByte(fn, which) ==
    CASE which = "same" -> fn
      [] which = "or80" -> Or80(fn)
      [] which = "and80" -> And80(fn)
      [] OTHER -> 99
LineLengths == {3, 4, 5, 6, 255, 256, 257, 300}

\* io.ReadAtLeast(port, data[:], rtuMinSize) with the bytes w of the line:
\* what the first read may return, never more than data holds
FirstReads(w) ==
    {n \in {rtuMinSize, rtuMinSize + 1, Min(Len(w), rtuMaxSize)} :
        rtuMinSize <= n /\ n <= Len(w)}

\* rtuTransporter.Send is handed the ADU of the call's PDU as the packager
\* encodes it, whatever the quantities, and the device delivers len bytes
\* with that function byte: bytesToRead, the first read (which fails on
\* fewer than rtuMinSize bytes), and the reads after it
RawSend(which, len) ==
    /\ rpc = "new"
    /\ bcall.client = "RTUClient"
    /\ LET p == RtuEncode(bcall.id,
                          [FunctionCode |-> bcall.fn,
                           Data |-> RequestData(bcall.fn, bcall.address, bcall.second,
                                                bcall.third, bcall.value)])
           w == <<bcall.id, FunctionByte(bcall.fn, which)>> \o Zeros(len - 2)
       IN  /\ p.err = NoError
           /\ built' = p
           /\ bytesToRead' = calculateResponseLength(p.adu)
           /\ reply' = [kind |-> "any", bytes |-> w]
           /\ IF FirstReads(w) = {}
              THEN /\ first' = Len(w)
                   /\ sent' = [adu |-> <<>>, warn |-> "read", err |-> NoError,
                               taken |-> Len(w), flushed |-> FALSE, left |-> <<>>]
              ELSE \E n \in FirstReads(w) :
                      /\ first' = n
                      /\ sent' = RtuRead(p.adu, w, n, calculateResponseLength(p.adu))
    /\ rpc' = "raw"
    /\ UNCHANGED bcall
    /\ UNCHANGED <<tvars, cvars, bvars, kvars, lvars>>

\* the greatest length field tcpTransporter.Send accepts, and one that
\* leaves the six bytes before the unit id out of the account
LengthLimitWide == tcpMaxLength
LengthLimit == tcpMaxLength - (tcpHeaderSize - 1)

\* tcpTransporter.Send from the header on, with the bytes w that the socket
\* delivers: the header read in full, the two tests of its length field,
\* each followed by flush (one Read, which takes the d bytes it is given and
\* whose error is dropped), then the rest of the frame read in full
TcpRead(w, d) ==
    LET length == BigEndianUint16(w, 4)
        failed(msg, n, fl) ==
            [adu |-> <<>>, warn |-> NoError, err |-> msg, taken |-> n, flushed |-> fl,
             left |-> Slice(w, n + (IF fl THEN d ELSE 0), Len(w))]
    IN IF Len(w) < tcpHeaderSize THEN failed("read", Len(w), FALSE)
       ELSE IF length <= 0
       THEN failed("length in response header must not be zero", tcpHeaderSize, TRUE)
       ELSE IF length > LengthLimit
       THEN failed("length in response header must not greater than", tcpHeaderSize, TRUE)
       ELSE IF Len(w) < length + tcpHeaderSize - 1 THEN failed("read", Len(w), FALSE)
       ELSE [adu |-> Slice(w, 0, length + tcpHeaderSize - 1), warn |-> NoError,
             err |-> NoError, taken |-> length + tcpHeaderSize - 1, flushed |-> FALSE,
             left |-> Slice(w, length + tcpHeaderSize - 1, Len(w))]

\* the server answers a TCP request with a header whose length field is
\* length, body bytes after it and more bytes after those, and
\* tcpTransporter.Send reads the answer
TcpSend(length, body, more) ==
    /\ rpc = "called"
    /\ built.err = NoError
    /\ bcall.client = "MBClient" /\ bcall.mode = "tcp"
    /\ LET w == Slice(built.adu, 0, 4) \o PutUint16(length) \o <<bcall.id>>
                 \o Zeros(body) \o Zeros(more)
       IN \E d \in {0, Min(body + more, tcpMaxLength)} :
              /\ reply' = [kind |-> "tcp", bytes |-> w]
              /\ first' = tcpHeaderSize
              /\ sent' = TcpRead(w, d)
    /\ rpc' = "read"
    /\ UNCHANGED <<bcall, built, bytesToRead>>
    /\ UNCHANGED <<tvars, cvars, bvars, kvars, lvars>>

(***************************************************************************)
(* The specifications.                                                     *)
(***************************************************************************)
\* the transporter group at rest, for the specifications that do not move it
TQuiet ==
    /\ mode = "tcp"
    /\ IdleTimeout = 0
    /\ TInit

Init == TInit /\ CQuiet /\ BQuiet /\ KQuiet /\ RQuiet /\ LQuiet

Next ==
    \/ Tick
    \/ TimerFire
    \/ CloseIdleCheck
    \/ CloseIdleClose
    \/ CloseIdleKeep
    \/ Connect
    \/ Close
    \/ MBConnect
    \/ \E t \in Senders : SendLock(t)
    \/ \E t \in Senders : SendConnect(t)
    \/ \E t \in Senders : SendOpen(t)
    \/ \E t \in Senders : SendStamp(t)
    \/ \E t \in Senders : SendWrite(t)
    \/ \E t \in Senders : RtuReadAtLeast(t)
    \/ \E t \in Senders : RtuReadFull(t)
    \/ \E t \in Senders : TcpReadHeader(t)
    \/ \E t \in Senders : TcpReadBody(t)
    \/ \E t \in Senders : AsciiRead(t)
    \/ \E t \in Senders : SendReturn(t)
    \/ DeviceReply
    \/ DeviceReplyRest
    \/ DeviceDrop

Spec == Init /\ [][Next]_vars

\* One goroutine sends, then leaves the transporter alone, then sends again;
\* nobody calls Connect or Close. Time passes, an expired timer fires, and a
\* goroutine that can take a step does so in the end (the Go scheduler); a
\* blocked read ends, with data or with its timeout.
FairSenders == {1}

FairNext ==
    \/ Tick
    \/ TimerFire
    \/ CloseIdleCheck
    \/ CloseIdleClose
    \/ CloseIdleKeep
    \/ \E t \in FairSenders : SendLock(t)
    \/ \E t \in FairSenders : SendConnect(t)
    \/ \E t \in FairSenders : SendOpen(t)
    \/ \E t \in FairSenders : SendStamp(t)
    \/ \E t \in FairSenders : SendWrite(t)
    \/ \E t \in FairSenders : RtuReadAtLeast(t)
    \/ \E t \in FairSenders : RtuReadFull(t)
    \/ \E t \in FairSenders : TcpReadHeader(t)
    \/ \E t \in FairSenders : TcpReadBody(t)
    \/ \E t \in FairSenders : AsciiRead(t)
    \/ \E t \in FairSenders : SendReturn(t)
    \/ DeviceReply
    \/ DeviceReplyRest
    \/ DeviceDrop

FairSpec ==
    /\ Init
    /\ [][FairNext]_vars
    /\ WF_vars(Tick)
    /\ WF_vars(TimerFire)
    /\ WF_vars(CloseIdle)
    /\ \A t \in FairSenders : WF_vars(SendStep(t))

CNext ==
    \/ \E e \in Encoders, c \in Clients : EncodeAdd(e, c)
    \/ \E e \in Encoders : EncodePut(e)
    \/ \E c \in Clients, id \in SlaveIds : SetID(c, id)
    \/ \E c \in Clients, id \in SlaveIds : Set(c, id)

ClientInit == TQuiet /\ CInit /\ BQuiet /\ KQuiet /\ RQuiet /\ LQuiet

ClientSpec == ClientInit /\ [][CNext]_vars

BNext ==
    \/ \E id \in Ids : Get(id)
    \/ \E id \in Ids : Plus(id)
    \/ \E id \in Ids : Nullify(id)
    \/ Clean
    \/ \E value \in 0..MaxLimit : SetLimitFailedSendes(value)
    \/ \E fn \in BOOLEAN : SetNoticeDeviceBlock(fn)

BlacklistInit == TQuiet /\ CQuiet /\ BInit /\ KQuiet /\ RQuiet /\ LQuiet

BlacklistSpec == BlacklistInit /\ [][BNext]_vars

\* The reset ticker of a blacklist and what runs beside it: the ticker
\* goroutine, Clean, SetNoticeClean, and counters that Plus and Nullify move.
TNext ==
    \/ TickerTick
    \/ TickerNotice
    \/ TickerClean
    \/ Clean
    \/ \E fn \in BOOLEAN : SetNoticeClean(fn)
    \/ \E id \in Ids : Plus(id)
    \/ \E id \in Ids : Nullify(id)

TickerSpecInit == TQuiet /\ CQuiet /\ TickerInit /\ KQuiet /\ RQuiet /\ LQuiet

TickerSpec == TickerSpecInit /\ [][TNext]_vars

\* The blacklist with its mutex: callers and the ticker goroutine, each call
\* in its steps.  A goroutine that can take a step takes it, and a Lock that
\* finds the mutex unlocked again and again returns (sync.Mutex hands a
\* starved waiter the mutex).
LNext ==
    \/ \E g \in Callers, c \in Calls : Call(g, c)
    \/ \E g \in Goroutines : Lock(g)
    \/ \E g \in Goroutines : Callback(g)
    \/ \E g \in Goroutines : Return(g)
    \/ LoopTick
    \/ LoopNotice
    \/ LoopClean

\* NewBlacklist(1, 1), perhaps followed by SetNoticeDeviceBlock and SetNoticeClean
MutexInit ==
    /\ TQuiet /\ CQuiet /\ KQuiet /\ RQuiet /\ LInit
    /\ \E v \in Versions, cl \in BOOLEAN, bk \in BOOLEAN : BInitWith(v, 1, 0, 1, cl, bk)

MutexSpec ==
    /\ MutexInit
    /\ [][LNext]_vars
    /\ \A g \in Goroutines :
          /\ SF_vars(Lock(g))
          /\ WF_vars(Callback(g))
          /\ WF_vars(Return(g))
    /\ WF_vars(LoopClean)

\* The framing codec alone: a request encoded, then decoded as it is or with
\* one bit flipped, or verified against a response.
KNext ==
    \/ Encode
    \/ Loopback
    \/ FlipBit
    \/ Truncate
    \/ Decode
    \/ \E dt \in {0, 1, 256}, dp \in {0, 1, 256}, du \in {0, 1} : Respond(dt, dp, du)
    \/ \E code \in {2, 11}, du \in {0, 1} : Except(code, du)
    \/ Verify
    \/ DecodeResponse

CodecInit == TQuiet /\ CQuiet /\ BQuiet /\ KInit /\ RQuiet /\ LQuiet

CodecSpec == CodecInit /\ [][KNext]_vars

\* The request builders alone: a builder called, and the length of the RTU
\* response predicted for the request it returned.
RNext ==
    \/ Build
    \/ Predict
    \/ \E kind \in {"normal", "exception"}, fifo \in {0, 3} : RtuSend(kind, fifo)
    \/ \E which \in {"same", "or80", "and80", "other"}, len \in LineLengths :
          RawSend(which, len)
    \/ \E length \in {0, 1, 2, 254, 255, 65535}, body \in {0, 1, 3, 253, 254},
          more \in {0, 9} : TcpSend(length, body, more)

BuilderInit == TQuiet /\ CQuiet /\ BQuiet /\ KQuiet /\ RInit /\ LQuiet

BuilderSpec == BuilderInit /\ [][RNext]_vars

(***************************************************************************)
(* The claims about the transporter.                                       *)
(***************************************************************************)
\* sender t has written its request and has not yet read the whole response
InExchange(t) == pc[t] \in {"read", "more"}
AllIdle == \A t \in Senders : pc[t] = "idle"

\* C1: on one transporter of any variant at most one request is in flight:
\* no two Send calls are between their write and the end of their read at
\* the same time.
C1_OneInFlight == Cardinality({t \in Senders : InExchange(t)}) <= 1

\* C2: the idle-close timer never closes the handle while a Send is in
\* progress: closeIdle does not close an open handle while some Send is at
\* its write or has written and not yet read its response.
C2_NoIdleCloseDuringSend ==
    [][(cidle = "close" /\ cidle' = "none" /\ port # NilHandle)
          => \A t \in Senders : pc[t] \notin {"write", "read", "more"}]_vars

\* C3: responses are observed in the order of the requests: what the k-th
\* Send returns is the device's reply to request k, also after an earlier
\* Send ended with a timeout or a partly read frame.
C3_ResponsesInOrder ==
    \A t \in Senders :
        pc[t] = "ret" =>
            \A i \in DOMAIN aduResponse[t] : aduResponse[t][i].req = req[t]

\* C4: whenever Send returns a non-nil err, the handle is nil on return.
C4_FatalErrorClosesHandle ==
    \A t \in Senders :
        (pc[t] = "ret" /\ err[t] # NoError) => port = NilHandle

\* a read of the response failed, or ended before the frame did
ReadAnomaly(t) ==
    \/ err[t] = "read"
    \/ warn[t] = "read"
    \/ /\ mode = "ascii" /\ data[t] # <<>>
       /\ data[t][Len(data[t])].kind = "head"

\* C5: on every transport an anomaly while reading the response (too short,
\* a timeout, an I/O error in the middle of the frame) is returned as warn,
\* with err nil.
C5_ReadAnomalyIsWarning ==
    \A t \in Senders :
        (pc[t] = "ret" /\ ReadAnomaly(t)) =>
            (warn[t] # NoError /\ err[t] = NoError)

\* C6: with IdleTimeout > 0, once a Send has completed and no further Send
\* is made, the handle is closed in the end by the idle timer; and a Send
\* that then finds the handle nil opens one and goes on to its exchange, or
\* returns the error of the failed open.
C6_IdleCloseThenReopen ==
    /\ (AllIdle /\ port # NilHandle /\ closeTimer # "nil")
          ~> (port = NilHandle \/ ~AllIdle)
    /\ [][\A t \in Senders :
            (pc[t] = "open" /\ pc'[t] # "open")
               => \/ port' \in handles' /\ pc'[t] = "stamp"
                  \/ err'[t] # NoError /\ pc'[t] = "ret"]_vars

\* a Send that found the handle closed by the idle timer has opened a new
\* one and returns the whole reply to its own request
C6_Witness ==
    \E t \in Senders :
        /\ pc[t] = "ret" /\ dialed[t]
        /\ closeTimer # "nil"
        /\ Len(aduResponse[t]) = 2
        /\ \A i \in DOMAIN aduResponse[t] : aduResponse[t][i].req = req[t]

(***************************************************************************)
(* The claims about the TCP client's transaction ids.                      *)
(***************************************************************************)
\* the ordinal of a recorded Encode on its tcpClient, as 16 bits hold it
Ordinal16(call) == (call.base + call.n) % 65536

\* C7: distinct TCP clients always produce distinct transaction ids: the ids
\* in the headers of any two Encode calls on two different clients differ.
C7_DistinctAcrossClients ==
    \A r1 \in issued, r2 \in issued :
        r1.call.cl # r2.call.cl => TxnOf(r1.adu) # TxnOf(r2.adu)

\* C7, amended: every tcpClient counts its own Encode calls from zero, so the
\* id in a header is the call's ordinal on its own tcpClient modulo 65536, and
\* two calls on different clients carry the same id exactly when their
\* ordinals agree modulo 65536.
C7_IdIsOwnOrdinal ==
    /\ \A r \in issued : TxnOf(r.adu) = Ordinal16(r.call)
    /\ \A r1 \in issued, r2 \in issued :
          r1.call.cl # r2.call.cl =>
              (TxnOf(r1.adu) = TxnOf(r2.adu) <=> Ordinal16(r1.call) = Ordinal16(r2.call))

\* the first Encode on each of two fresh clients: both headers carry id 1
C7_Witness ==
    \E r1 \in issued, r2 \in issued :
        /\ r1.call.cl # r2.call.cl
        /\ r1.call.base = 0 /\ r1.call.n = 1
        /\ r2.call.base = 0 /\ r2.call.n = 1
        /\ TxnOf(r1.adu) = 1 /\ TxnOf(r2.adu) = 1

\* C8: for any interleaving of concurrent Encode calls on one TCP client, the
\* transaction ids written into the headers are pairwise distinct.
C8_DistinctWithinClient ==
    \A r1 \in issued, r2 \in issued :
        (/\ r1.call.cl = r2.call.cl
         /\ r1.call.inst = r2.call.inst
         /\ r1.call.n # r2.call.n) => TxnOf(r1.adu) # TxnOf(r2.adu)

\* two Encode calls on one tcpClient, the second begun while the first had
\* taken its id and not yet written its header, with the 16-bit wrap between
C8_Witness ==
    \E r1 \in issued, r2 \in issued :
        /\ r1.call.cl = r2.call.cl
        /\ r1.call.inst = r2.call.inst
        /\ r2.call.n = r1.call.n + 1
        /\ r2.call.overlap
        /\ TxnOf(r1.adu) = 65535 /\ TxnOf(r2.adu) = 0

\* C9: the transaction counter of a TCP-mode client never decreases over the
\* client's life, whatever is called on the MBClient (Encode, SetID,
\* Set(id, "tcp")); each Encode advances it by one, and the header carries
\* the new value truncated to 16 bits.
C9_CounterMonotonic ==
    [][/\ \A c \in Clients : ~Less32(transactionId'[c], transactionId[c])
       /\ \A e \in Encoders :
             (epc[e] = "idle" /\ epc'[e] = "put") =>
                 /\ Less32(transactionId[ecl'[e].cl], transactionId'[ecl'[e].cl])
                 /\ etx'[e] = transactionId'[ecl'[e].cl]
       /\ \A r \in issued' \ issued : \E e \in Encoders :
             /\ epc[e] = "put" /\ epc'[e] = "idle"
             /\ TxnOf(r.adu) = Uint16(etx[e])]_vars

(***************************************************************************)
(* The claims about the blacklist.                                         *)
(***************************************************************************)
\* C10: with a limit L > 0 and an id whose counter is 0, the k-th
\* consecutive Get(id) returns (blocked = (k > L), count = k).
C10_KthGet ==
    (got.k # Broken /\ got.limit > 0) =>
        (got.blocked = (got.k > got.limit) /\ got.notresponse = got.k)

\* C11: with a limit L > 0 and an id starting from counter 0,
\* on_device_blocked(id) fires during the L-th consecutive Get(id), the call
\* that returns count = L, and during no earlier or later Get of that run.
C11_FiresOnLthGet ==
    (got.k # Broken /\ got.limit > 0 /\ got.set) =>
        (got.fired <=> got.k = got.limit)

\* C11, amended: on_device_blocked(id) fires during the Get that finds the
\* counter equal to L, which is the (L+1)-th consecutive Get of the run, the
\* first that returns blocked; and during no other Get of the run, but for
\* the uint16 counter coming round to L again after 65536 more calls.
C11_FiresOnGetAfterLth ==
    (got.k # Broken /\ got.limit > 0 /\ got.set) =>
        (got.fired <=> Wrap(version, got.k - 1) = got.limit)

\* with L = 3 the fourth Get of a run has fired the callback and returns (true, 4)
C11_Witness ==
    /\ got.limit = 3 /\ got.k = 4 /\ got.set
    /\ got.fired /\ got.blocked /\ got.notresponse = 4

\* C12: on_device_blocked(id) is fired exactly by the Get(id) that moves id's
\* counter from limit to limit+1 and by no other operation, so between two
\* resets of that counter it fires at most once per id, under any
\* interleaving of Get, Plus, Nullify and Clean.
C12_FiresOncePerReset ==
    [][\A id \in Ids :
          /\ fires'[id] > fires[id] =>
                /\ Get(id)
                /\ Count(list, id) = limit
                /\ Count(list', id) = limit + 1
          /\ (Get(id) /\ nblock /\ limit > 0 /\ Count(list, id) = limit) => got'.fired
          /\ fires'[id] <= 1]_vars

\* C13: on every tick of the reset ticker on_clean, when set, is invoked
\* exactly once, and before any counter is zeroed by that tick.
C13_OneCleanNoticePerTick ==
    (tick.done /\ tick.stable) => (tick.calls = 1 /\ ~tick.late)

\* the frame of Clean: the keys and the limit stay, every counter is 0
CleanFrame ==
    /\ DOMAIN list' = DOMAIN list
    /\ \A i \in DOMAIN list' : list'[i] = 0
    /\ limit' = limit

\* the frame of Nullify(id): id's counter is 0, every other counter, the
\* limit and the callbacks stay
NullifyFrame(id) ==
    /\ id \in DOMAIN list' /\ list'[id] = 0
    /\ \A j \in Ids \ {id} :
          /\ j \in DOMAIN list' <=> j \in DOMAIN list
          /\ Count(list', j) = Count(list, j)
    /\ limit' = limit
    /\ nclean' = nclean
    /\ nblock' = nblock

\* C14: Clean sets the counter of every existing key to 0 and leaves the set
\* of keys and the limit unchanged; Nullify(id) sets only id's counter to 0
\* and leaves every other counter, the limit and the callbacks unchanged.
C14_ResetFrames ==
    [][/\ (Clean \/ TickerClean) => CleanFrame
       /\ \A id \in Ids : Nullify(id) => NullifyFrame(id)]_vars

\* a tick's Clean has zeroed a counter that was not 0, and every id still
\* has its key
C14_Witness ==
    /\ tick.done /\ tick.hit /\ tpc = "wait"
    /\ DOMAIN list = Ids
    /\ \A i \in Ids : list[i] = 0

\* C15: NewBlacklist(limit, 0) yields the default reset interval of 60
\* minutes, stored and armed, and init completes.
C15_ZeroIntervalIsDefault ==
    timeoutClean = 0 => (bltimeout = 60 /\ ticker = 60 /\ Made)

(***************************************************************************)
(* The claims about the framing codec.                                     *)
(***************************************************************************)
\* the largest ADU of a transport, and the size of the ADU a PDU assembles to
MaxSize(m) ==
    CASE m = "rtu" -> rtuMaxSize
      [] m = "tcp" -> tcpMaxLength
      [] m = "ascii" -> asciiMaxSize

AssembledSize(m, p) ==
    CASE m = "rtu" -> Len(p.Data) + 4
      [] m = "tcp" -> tcpHeaderSize + 1 + Len(p.Data)
      [] m = "ascii" -> Len(asciiStart) + 2 * (Len(p.Data) + 3) + Len(asciiEnd)

\* C16: every encoder fails with an error, and returns no ADU, when the
\* assembled ADU would exceed its transport maximum (RTU 256 bytes, TCP 260
\* bytes, ASCII 513 characters); every ADU an encoder returns is within it.
C16_OversizeFails ==
    kpc # "built" =>
        /\ AssembledSize(api, reqPdu) > MaxSize(api) =>
               (encoded.err # NoError /\ encoded.adu = <<>>)
        /\ Len(encoded.adu) <= MaxSize(api)

\* C17: round trip.  On every transport, for every slave id and every PDU a
\* request builder makes from valid arguments, Encode returns no error and
\* Decode of the ADU it returned succeeds and returns a PDU with the same
\* function code and the same data.
C17_RoundTrip ==
    reqPdu \in BuiltPdus =>
        /\ kpc # "built" => encoded.err = NoError
        /\ (kpc = "decoded" /\ flip = NoFlip) =>
               (decoded.err = NoError /\ decoded.pdu = reqPdu)

\* the longest request a builder makes (WriteMultipleCoils of 1968 coils) has
\* gone through the ASCII encoder and decoder
C17_Witness ==
    /\ kpc = "decoded" /\ flip = NoFlip /\ api = "ascii"
    /\ reqPdu \in BuiltPdus /\ Len(reqPdu.Data) = 251
    /\ Len(frame) = 511
    /\ decoded.pdu = reqPdu

\* C18: on every transport, for every request ADU that a request builder
\* produced from valid arguments (the shortest included, ReadFIFOQueue),
\* Verify(req, req) returns no error.
C18_VerifyOwnRequest ==
    (kpc = "verified" /\ reqPdu \in BuiltPdus /\ response = encoded.adu) =>
        verified = NoError

\* the 13 characters of an ASCII ReadFIFOQueue request have been verified
\* against themselves
C18_Witness ==
    /\ kpc = "verified" /\ api = "ascii"
    /\ reqPdu \in BuiltPdus /\ reqPdu.FunctionCode = 24
    /\ response = encoded.adu /\ Len(response) = 13
    /\ verified = NoError

\* the positions of a frame that hold its checksum, and those of an ASCII
\* frame that hold its colon and its CR LF
ChecksumAt(m, a) ==
    IF m = "rtu" THEN {Len(a) - 1, Len(a)} ELSE {Len(a) - 3, Len(a) - 2}

DelimiterAt(a) == {1, Len(a) - 1, Len(a)}

ChecksumMismatch(m) ==
    IF m = "rtu" THEN "response crc does not match expected"
    ELSE "response lrc does not match expected"

\* a frame from Encode has been decoded with one bit flipped outside its
\* checksum
FlippedOutsideChecksum ==
    /\ kpc = "decoded"
    /\ flip # NoFlip
    /\ flip.at \notin ChecksumAt(api, encoded.adu)

\* C19 as stated: flipping any single bit of an RTU or ASCII ADU from Encode,
\* outside the checksum bytes, makes Decode fail with the checksum-mismatch
\* error (CRC for RTU, LRC for ASCII).
C19_FlipFailsChecksum ==
    FlippedOutsideChecksum => decoded.err = ChecksumMismatch(api)

\* C19 as the code has it: an RTU frame with such a flip always fails with
\* the CRC mismatch.  An ASCII frame fails with the LRC mismatch when the
\* flipped character is still a hex digit of another value, and with the hex
\* error when it is no hex digit; it decodes without error, to the PDU that
\* was encoded, when the flip only changes the case of a letter A to F or
\* falls in the colon or the CR LF, which Decode does not read.
C19_FlipDetected ==
    FlippedOutsideChecksum =>
        IF api = "rtu" THEN decoded.err = ChecksumMismatch(api)
        ELSE IF flip.at \in DelimiterAt(frame)
                \/ fromHexChar(frame[flip.at]) = fromHexChar(encoded.adu[flip.at])
        THEN decoded.err = NoError /\ decoded.pdu = reqPdu
        ELSE IF fromHexChar(frame[flip.at]) = 16
        THEN decoded.err = "encoding/hex: invalid byte"
        ELSE decoded.err = ChecksumMismatch(api)

\* an ASCII frame with a hex digit of its data turned into another digit has
\* been refused for its LRC
C19_Witness ==
    /\ FlippedOutsideChecksum /\ api = "ascii"
    /\ flip.at > 5 /\ flip.at \notin DelimiterAt(frame)
    /\ decoded.err = "response lrc does not match expected"

\* C20: TCP header integrity.  Verify(req, response) returns an error for
\* every response that differs from the request in the transaction id, the
\* protocol id or the unit id, the error naming the first field that
\* differs in the order transaction id, protocol id, unit id; it returns no
\* error when the three fields match.
C20_HeaderIntegrity ==
    (kpc = "verified" /\ api = "tcp") =>
        verified = IF "transaction" \in altered
                   THEN "response transaction id does not match request"
                   ELSE IF "protocol" \in altered
                   THEN "response protocol id does not match request"
                   ELSE IF "unit" \in altered
                   THEN "response unit id does not match request"
                   ELSE NoError

\* a response with another protocol id and another unit id has been refused
\* for its protocol id
C20_Witness ==
    /\ kpc = "verified" /\ api = "tcp"
    /\ altered = {"protocol", "unit"}
    /\ BigEndianUint16(response, 2) # BigEndianUint16(encoded.adu, 2)
    /\ response[7] # encoded.adu[7]
    /\ verified = "response protocol id does not match request"

(***************************************************************************)
(* The request builders and the RTU response length.                       *)
(***************************************************************************)
\* the range each builder accepts, as the documentation states it
Accepted(c) ==
    CASE c.fn \in {1, 2} -> c.second \in 1..2000
      [] c.fn \in {3, 4} -> c.second \in 1..125
      [] c.fn = 5 -> c.second \in {0, 65280}
      [] c.fn = 15 -> c.second \in 1..1968
      [] c.fn = 16 -> c.second \in 1..123
      [] c.fn = 23 -> c.second \in 1..125 /\ c.third \in 1..121
      [] OTHER -> TRUE

RangeErrors == {"quantity must be between", "quantity to read must be between",
                "quantity to write must be between",
                "state must be either 0xFF00 (ON) or 0x0000 (OFF)"}

\* what Encode of the client's packager returns for the builder's PDU
Delegated(c) ==
    ApiEncode(IF c.client = "RTUClient" THEN "rtu" ELSE c.mode, c.id, Zero32,
              [FunctionCode |-> c.fn,
               Data |-> RequestData(c.fn, c.address, c.second, c.third, c.value)])

\* C21: a builder of MBClient or RTUClient returns its own range error, and
\* the one-byte slice, exactly when an argument is outside the range it
\* accepts (1..2000 for ReadCoils and ReadDiscreteInputs, 1..125 for
\* ReadHoldingRegisters and ReadInputRegisters, 1..1968 for
\* WriteMultipleCoils, 1..123 for WriteMultipleRegisters, 1..125 and 1..121
\* for ReadWriteMultipleRegisters, 0x0000 or 0xFF00 for WriteSingleCoil);
\* otherwise it returns what Encode returns for its PDU.
C21_BoundsEnforced ==
    rpc \in {"called", "predicted", "read"} =>
        /\ built.err \in RangeErrors <=> ~Accepted(bcall)
        /\ ~Accepted(bcall) => built.adu = <<0>>
        /\ Accepted(bcall) => built = Delegated(bcall)

\* both ends of a range were accepted and both neighbours refused, on both
\* clients: here ReadCoils(19, 2000) was encoded by an RTUClient
C21_Witness ==
    /\ rpc = "called"
    /\ bcall.client = "RTUClient"
    /\ bcall.fn = 1
    /\ bcall.second = 2000
    /\ built.err = NoError
    /\ Len(built.adu) = 8

\* C22: Connect and Close are idempotent. A Connect call, on the variant or
\* through MBTransporter, that finds the transporter connected opens no
\* further handle and leaves the handle it had as the one the transporter
\* refers to; a Close that finds it closed changes nothing; and neither call
\* ever adds to the handles that are open and no longer referred to.
C22_ConnectCloseIdempotent ==
    [][/\ ((Connect \/ MBConnect) /\ port # NilHandle)
            => (handles' = handles /\ port' = port)
       /\ (Close /\ port = NilHandle) => (handles' = handles /\ port' = port)
       /\ (Connect \/ MBConnect \/ Close)
            => (handles' \ {port'}) \subseteq (handles \ {port})]_vars

\* C23: an exception response is not an error at the framing layer.  On
\* every transport, an exception response from the slave that was asked (its
\* id, the request's function code with the top bit set, one exception code,
\* a correct checksum or header) passes Verify without error, and Decode
\* returns no error and a PDU with that function code and that one byte.
C23_ExceptionIsNoError ==
    ("exception" \in altered /\ "unit" \notin altered) =>
        /\ kpc \in {"verified", "settled"} => verified = NoError
        /\ kpc = "settled" =>
               /\ decoded.err = NoError
               /\ decoded.pdu.FunctionCode = reqPdu.FunctionCode + 128
               /\ Len(decoded.pdu.Data) = 1
               /\ decoded.pdu.Data[1] \in {2, 11}

\* the 11 characters of an ASCII exception response to ReadHoldingRegisters
\* have been verified and decoded
C23_Witness ==
    /\ kpc = "settled" /\ api = "ascii"
    /\ altered = {"exception"}
    /\ Len(response) = 11
    /\ verified = NoError
    /\ decoded = [pdu |-> [FunctionCode |-> 131, Data |-> <<2>>], err |-> NoError]

\* ReadCoils(0x0013, quantity) on an RTU client with slave id 0x11
ReadCoilsCalled(quantity) ==
    /\ rpc \in {"called", "predicted", "read"}
    /\ bcall.client = "RTUClient" \/ bcall.mode = "rtu"
    /\ bcall.fn = 1 /\ bcall.id = 17 /\ bcall.address = 19
    /\ bcall.second = quantity

\* the frame ends with the CRC-16 of the bytes before it, low byte at len-2
\* and high byte at len-1
CrcPlaced(adu) ==
    LET checksum == Crc(Slice(adu, 0, Len(adu) - 2))
    IN /\ adu[Len(adu) - 1] = checksum % 256
       /\ adu[Len(adu)] = checksum \div 256

\* C24 as stated: the RTU encoding of ReadCoils with slave id 0x11, address
\* 0x0013 and quantity 0x0013 is the 8 bytes 11 01 00 13 00 13 0E 84, the
\* last two being the CRC-16 of the first six, low byte first.
C24_ReadCoilsFrame ==
    ReadCoilsCalled(19) =>
        /\ built.err = NoError
        /\ built.adu = <<17, 1, 0, 19, 0, 19, 14, 132>>
        /\ CrcPlaced(built.adu)

\* C24 as the code has it: that request is 11 01 00 13 00 13 8E 92; the
\* bytes 0E 84 are the CRC of the request for quantity 0x0025,
\* 11 01 00 13 00 25 0E 84.  Either way the CRC-16 of the first six bytes
\* follows them with its low byte first.
C24_ReadCoilsFrameCrc ==
    /\ ReadCoilsCalled(19) =>
           /\ built.err = NoError
           /\ built.adu = <<17, 1, 0, 19, 0, 19, 142, 146>>
           /\ CrcPlaced(built.adu)
    /\ ReadCoilsCalled(37) =>
           /\ built.err = NoError
           /\ built.adu = <<17, 1, 0, 19, 0, 37, 14, 132>>
           /\ CrcPlaced(built.adu)

\* an RTUClient has built ReadCoils(0x0013, 0x0013)
C24_Witness ==
    /\ ReadCoilsCalled(19)
    /\ bcall.client = "RTUClient"
    /\ Len(built.adu) = 8
    /\ built.adu[7] = 142

\* C25: RTU read rule for exceptions.  When the response's function byte is
\* the request's function code with the top bit set, rtuTransporter.Send,
\* whose first read returned at least 4 bytes, reads on until it holds 5 and
\* returns the 5-byte exception frame, whatever the request's function code.
C25_ExceptionFrameRead ==
    (rpc = "read" /\ reply.kind = "exception") =>
        /\ reply.bytes[2] = Or80(built.adu[2])
        /\ sent.warn = NoError
        /\ sent.adu = reply.bytes
        /\ Len(sent.adu) = rtuExceptionSize

\* the function codes whose response has a length the request determines
Determined == {1, 2, 3, 4, 5, 6, 15, 16, 22, 23}

\* the table of the response-length predictor
Tabled(c) ==
    CASE c.fn \in {1, 2} ->
           4 + 1 + (CHOOSE k \in 0..250 : 8 * k >= c.second /\ 8 * (k - 1) < c.second)
      [] c.fn \in {3, 4, 23} -> 4 + 1 + 2 * c.second
      [] c.fn \in {5, 6, 15, 16} -> 8
      [] c.fn = 22 -> 10
      [] OTHER -> 4

\* C26 as stated: calculateResponseLength returns the length its table gives
\* for the request's function code and quantity, and that is the byte length
\* of a well-formed RTU response to the request.
C26_PredictedIsResponseLength ==
    /\ (rpc = "predicted" \/ (rpc = "read" /\ reply.kind # "tcp")) =>
           bytesToRead = Tabled(bcall)
    /\ (rpc = "read" /\ reply.kind = "normal") => bytesToRead = Len(reply.bytes)

\* C26 as the code has it: the table, and the length of the response for the
\* ten function codes whose response length follows from the request; for
\* ReadFIFOQueue the 4 that is returned is less than the length of every
\* response, which is 8 and two bytes for each value in the queue.
C26_PredictedLength ==
    /\ (rpc = "predicted" \/ (rpc = "read" /\ reply.kind # "tcp")) =>
           bytesToRead = Tabled(bcall)
    /\ (rpc = "read" /\ reply.kind = "normal") =>
           IF bcall.fn \in Determined
           THEN bytesToRead = Len(reply.bytes)
           ELSE /\ bytesToRead = rtuMinSize
                /\ Len(reply.bytes) = 8 + 2 * BigEndianUint16(reply.bytes, 4)
                /\ bytesToRead < Len(reply.bytes)

\* the 27 bytes of the response to ReadHoldingRegisters with quantity 11 were
\* predicted and read
C26_Witness ==
    /\ rpc = "read" /\ reply.kind = "normal"
    /\ bcall.fn = 3 /\ bcall.second = 11
    /\ bytesToRead = 27
    /\ Len(reply.bytes) = 27
    /\ sent.adu = reply.bytes

\* C27: TCP read rule.  tcpTransporter.Send reads the 7 header bytes and
\* takes length from bytes 4..5.  If 0 < length <= 254 it reads length-1
\* further bytes and returns the 6+length bytes, never more than 260; if
\* length is 0 or more than 254 it flushes the socket and returns an error
\* and no response, having read no body.
C27_TcpReadRule ==
    (rpc = "read" /\ reply.kind = "tcp") =>
        LET length == BigEndianUint16(reply.bytes, 4)
        IN IF length = 0 \/ length > 254
           THEN /\ sent.err # NoError
                /\ sent.adu = <<>>
                /\ sent.taken = 7
                /\ sent.flushed
           ELSE /\ ~sent.flushed
                /\ IF Len(reply.bytes) >= 6 + length
                   THEN /\ sent.err = NoError /\ sent.warn = NoError
                        /\ sent.taken = 7 + (length - 1)
                        /\ sent.adu = SubSeq(reply.bytes, 1, 6 + length)
                        /\ Len(sent.adu) <= 260
                        /\ Len(sent.left) = Len(reply.bytes) - (6 + length)
                   ELSE sent.err # NoError /\ sent.adu = <<>>

\* a frame of the greatest length, 260 bytes, was returned and the nine
\* bytes behind it were left in the socket
C27_Witness ==
    /\ rpc = "read" /\ reply.kind = "tcp"
    /\ BigEndianUint16(reply.bytes, 4) = 254
    /\ Len(sent.adu) = 260
    /\ Len(sent.left) = 9
    /\ sent.err = NoError

\* C28: for every byte sequence given to it as a frame, of any length,
\* asciiClient.Decode returns a PDU or an error; it never slices or indexes
\* outside the frame.
C28_DecodeStaysInFrame ==
    (kpc = "cutdecoded" /\ api = "ascii") => decoded.err # SliceOutOfRange

\* the byte of a response that holds the slave id (RTU) or the unit id (TCP)
IdByte(m, adu) == IF m = "rtu" THEN adu[1] ELSE adu[7]

\* C29: rtuClient.Decode and tcpClient.Decode return an error whenever the id
\* byte of the frame, byte 0 for RTU and byte 6 for TCP, is not the client's
\* id, also when the CRC or the length field of the frame is correct.
C29_ForeignIdRefused ==
    (kpc = "settled" /\ api \in {"rtu", "tcp"} /\ IdByte(api, response) # slaveId) =>
        decoded.err # NoError

\* an RTU frame from another slave, its CRC correct, was decoded: the error
\* names the address and the PDU is returned with it
C29_Witness ==
    /\ kpc = "settled" /\ api = "rtu"
    /\ altered = {"exception", "unit"}
    /\ response[1] # slaveId
    /\ Crc(Slice(response, 0, Len(response) - 2))
           = response[Len(response)] * 256 + response[Len(response) - 1]
    /\ decoded.err = "invalid address"
    /\ decoded.pdu.FunctionCode = response[2]

\* C30: on every return of Send, on every transport, at most one of warn and
\* err is set, the response is empty whenever one of them is, and so a
\* response that is not empty comes with both nil.
C30_OneOutcome ==
    \A t \in Senders :
        pc[t] = "ret" =>
            /\ warn[t] = NoError \/ err[t] = NoError
            /\ (warn[t] # NoError \/ err[t] # NoError) => aduResponse[t] = <<>>

\* an RTU Send returns the warning of its second read, and no response,
\* after its first read had delivered the beginning of a frame
C30_Witness ==
    \E t \in Senders :
        /\ pc[t] = "ret" /\ mode = "rtu"
        /\ warn[t] # NoError /\ err[t] = NoError
        /\ data[t] # <<>>
        /\ aduResponse[t] = <<>>

(***************************************************************************)
(* The claims about a blocked id of the blacklist.                         *)
(***************************************************************************)
\* C31: once Get(id) has returned blocked = true, every later Get(id) also
\* returns blocked = true until Clean, Nullify(id) or SetLimitFailedSendes
\* is called, whatever Get and Plus calls come between, the counter
\* reaching the top of its integer range included.
C31_BlockedStays ==
    [][\A id \in Ids : (Get(id) /\ since[id].blocked) => got'.blocked]_vars

\* C32: whenever Get(id) returns blocked = true while on_device_blocked is
\* set, that callback has been called for id since the counter of id was
\* last 0, under any interleaving of Get, Plus, Nullify and Clean.
C32_BlockedHasFired ==
    [][\A id \in Ids :
          (Get(id) /\ got'.blocked /\ nblock) => since'[id].fired]_vars

(***************************************************************************)
(* The claim about the mutex of the blacklist.                             *)
(***************************************************************************)
\* C33: every operation of the blacklist (Get, Plus, Nullify, Clean, the
\* setters and the Clean of the ticker) that a goroutine has begun returns,
\* with the mutex released, under any interleaving with the ticker
\* goroutine, also when nblock or nclean itself calls Nullify or Get.
C33_EveryCallReturns ==
    \A g \in Goroutines :
        (Len(stack[g]) > 0) ~> (Len(stack[g]) = 0 /\ mutex # g)

(***************************************************************************)
(* The claim about the response buffer of rtuTransporter.Send.             *)
(***************************************************************************)
\* C34: for every RTU request that a builder returns for arguments within
\* its bounds, the predicted response length lies between 4 and 256; and
\* for any request and any bytes the device delivers, rtuTransporter.Send
\* never reads into or slices its 256-byte buffer past index 256, and a
\* response it returns has between 4 and 256 bytes.
C34_BufferRespected ==
    /\ (rpc \in {"predicted", "read"} /\ reply.kind # "tcp") =>
           bytesToRead \in rtuMinSize..rtuMaxSize
    /\ (rpc \in {"read", "raw"} /\ reply.kind # "tcp") =>
           /\ sent.err # SliceOutOfRange
           /\ sent.taken <= rtuMaxSize
           /\ (sent.err = NoError /\ sent.warn = NoError) =>
                  (Len(sent.adu) \in rtuMinSize..rtuMaxSize /\ Len(sent.adu) = sent.taken)

\* a request for 65280 registers, whose predicted response of 130565 bytes
\* the buffer cannot hold, was answered with 300 bytes under the request's
\* function code: the first read returned 4, nothing more was read, and the
\* 4 bytes were returned
C34_Witness ==
    /\ rpc = "raw"
    /\ bcall.fn = 3 /\ bcall.second = 65280
    /\ bytesToRead = 130565
    /\ reply.bytes[2] = 3 /\ Len(reply.bytes) = 300
    /\ first = rtuMinSize
    /\ sent.err = NoError /\ sent.warn = NoError
    /\ Len(sent.adu) = rtuMinSize

====
